---- MODULE Spec2Model ----
(***************************************************************************)
(* mod_csrfprotector (apache 2.2): token store, request validation hook,   *)
(* failure actions and the streaming output filter of                      *)
(* src/apache 2.2/src/mod_csrfprotector.c.                                 *)
(*                                                                         *)
(* C strings are sequences of atoms.  An atom is a run of characters that  *)
(* the code never cuts ("tokA", "CSRFPSESSID") or a single character       *)
(* ("=", ";", "'", "<").  The empty string is << >>; the NULL pointer is   *)
(* the distinguished value NULL.  apr_size_t values are kept as integers:  *)
(* a negative integer v stands for the wrapped value 2^64 + v.             *)
(***************************************************************************)
EXTENDS Integers, Sequences, FiniteSets, TLC

VARIABLES
    table,        \* rows of table CSRFP in rowid order: [sessid, token, timestamp]
    counter,      \* rows of table CSRFP_COUNTER in rowid order (integers)
    now,          \* time(NULL)
    conf,         \* the csrfp_config singleton
    getRules,     \* the getTop linked list: patternString of each getRuleNode
    status,       \* position of the request being served
    req,          \* request_rec fields read by the module
    env,          \* r->subprocess_env (set of keys that are set)
    headers_out,  \* r->headers_out / r->err_headers_out entries the module touches
    hook,         \* what the last run of csrfp_header_parser did
    rctx,         \* csrfp_opf_ctx of the request (NULL before csrfp_get_rctx)
    resp,         \* response of the content generator still to be filtered
    passed,       \* buckets handed to ap_pass_brigade(f->next, ...) so far
    flt,          \* bookkeeping of the output filter runs of this request
    hist,         \* history: requests served, successful puts not yet swept,
                  \* counter updates and reseeds done
    procs         \* the children running setTokenCookie step by step

vars == <<table, counter, now, conf, getRules, status, req, env, headers_out,
          hook, rctx, resp, passed, flt, hist, procs>>

----------------------------------------------------------------------------
(* Strings                                                                 *)

NULL == <<"(null)">>

TOKEN_EXPIRY_MAXTIME == 1800
RESEED_RAND_AT == 10000
CSRFP_OVERLAP_BUCKET_SIZE == 8
DEFAULT_TOKEN_LENGTH == 15
DEFAULT_TOKEN_MINIMUM_LENGTH == 12
SQL_SESSID_DEFAULT_LENGTH == 10

CSRFP_SESS_TOKEN == <<"CSRFPSESSID">>
CSRFP_TOKEN == <<"csrfp_token">>
CSRFP_REGEN_TOKEN == <<"true">>
CSRFP_IGNORE_TEXT == "csrfp_ignore_set"

\* hook and status codes of httpd.h, kept by name
OK == "OK"
DONE == "DONE"
HTTP_FORBIDDEN == "HTTP_FORBIDDEN"
HTTP_MOVED_PERMANENTLY == "HTTP_MOVED_PERMANENTLY"
HTTP_INTERNAL_SERVER_ERROR == "HTTP_INTERNAL_SERVER_ERROR"

Take(s, n) == SubSeq(s, 1, IF n < Len(s) THEN n ELSE Len(s))
Drop(s, n) == SubSeq(s, n + 1, Len(s))

\* index of the first element of s equal to c, 0 if none (strchr / ap_strstr_c
\* for a key that is one atom)
RECURSIVE IndexFrom(_, _, _)
IndexFrom(s, c, i) ==
    IF i > Len(s) THEN 0
    ELSE IF s[i] = c THEN i
    ELSE IndexFrom(s, c, i + 1)

IndexOf(s, c) == IndexFrom(s, c, 1)

\* index of the last element of s equal to c, 0 if none (strrchr)
RECURSIVE LastIndexFrom(_, _, _)
LastIndexFrom(s, c, i) ==
    IF i < 1 THEN 0
    ELSE IF s[i] = c THEN i
    ELSE LastIndexFrom(s, c, i - 1)

\* s contains p as a contiguous run (regexec of a pattern without
\* metacharacters, which is unanchored)
Contains(s, p) ==
    \E i \in 0..(Len(s) - Len(p)) : SubSeq(s, i + 1, i + Len(p)) = p

EndsWith(s, p) ==
    Len(s) >= Len(p) /\ SubSeq(s, Len(s) - Len(p) + 1, Len(s)) = p

\* apr_tolower on the characters the model uses, and on the atoms that
\* stand for runs of upper-case characters
apr_tolower(c) ==
    CASE c = "B" -> "b" [] c = "O" -> "o" [] c = "D" -> "d" [] c = "Y" -> "y"
      [] c = "J" -> "j" [] c = "S" -> "s"
      [] c = "STRIP" -> "strip" [] c = "TEXT/HTML" -> "text/html"
      [] OTHER -> c

LowerStr(s) == [i \in 1..Len(s) |-> apr_tolower(s[i])]

strcasecmp0(a, b) == LowerStr(a) = LowerStr(b)

\* apr_table_get on a table kept as a sequence of <<name, value>> entries
RECURSIVE apr_table_get(_, _)
apr_table_get(t, key) ==
    IF t = <<>> THEN NULL
    ELSE IF strcasecmp0(Head(t)[1], key) THEN Head(t)[2]
    ELSE apr_table_get(Tail(t), key)

Digits == <<"0", "1", "2", "3", "4", "5", "6", "7", "8", "9">>
IsDigit(c) == \E d \in 1..10 : Digits[d] = c
DigitVal(c) == (CHOOSE d \in 1..10 : Digits[d] = c) - 1

\* the value of the leading decimal digits of s, acc being the value so far
RECURSIVE LeadingDigits(_, _)
LeadingDigits(s, acc) ==
    IF s = <<>> \/ ~IsDigit(Head(s)) THEN acc
    ELSE LeadingDigits(Tail(s), acc * 10 + DigitVal(Head(s)))

RECURSIVE CountDigits(_)
CountDigits(s) ==
    IF s = <<>> \/ ~IsDigit(Head(s)) THEN 0 ELSE 1 + CountDigits(Tail(s))

----------------------------------------------------------------------------
(* Configuration                                                           *)

\* the alternatives of CSRFP_IGNORE_PATTERN: every one but the last is
\* unanchored ("|" binds weaker than ".*" and "$"), the last ends with "$"
IgnoreAnywhere ==
    { <<"j","p","g">>, <<"j","p","e","g">>, <<"g","i","f">>, <<"p","n","g">>,
      <<"j","s">>, <<"c","s","s">>, <<"x","m","l">>, <<"x","s","l">>,
      <<"j","s","o","n">>, <<"t","x","t">> }
IgnoreAtEnd == { <<"c","s","v">> }

\* ap_regexec(conf->ignore_pattern, path, ...) == 0, compiled AP_REG_ICASE
IgnorePatternMatches(path) ==
    LET p == LowerStr(path)
    IN  \/ \E a \in IgnoreAnywhere : Contains(p, a)
        \/ \E a \in IgnoreAtEnd : EndsWith(p, a)

csrfp_srv_config_create ==
    [ flag                |-> "CSRFP_TRUE",
      action              |-> "forbidden",
      tokenLength         |-> DEFAULT_TOKEN_LENGTH,
      tokenName           |-> CSRFP_TOKEN,
      jsFilePath          |-> <<"DEFAULT_JS_FILE_PATH">>,
      errorRedirectionUri |-> <<>>,
      errorCustomMessage  |-> <<"DEFAULT_ERROR_MESSAGE">>,
      disablesJsMessage   |-> <<"DEFAULT_DISABLED_JS_MESSSAGE">> ]

csrfp_enable_cmd(c, arg) ==
    IF strcasecmp0(arg, <<"off">>) THEN [c EXCEPT !.flag = "CSRFP_FALSE"]
    ELSE [c EXCEPT !.flag = "CSRFP_TRUE"]

ActionNames == {"forbidden", "strip", "redirect", "message", "internal_server_error"}

csrfp_action_cmd(c, arg) ==
    IF \E a \in ActionNames : strcasecmp0(arg, <<a>>)
    THEN [c EXCEPT !.action = CHOOSE a \in ActionNames : strcasecmp0(arg, <<a>>)]
    ELSE [c EXCEPT !.action = "forbidden"]

csrfp_errorRedirectionUri_cmd(c, arg) ==
    IF Len(arg) > 0 THEN [c EXCEPT !.errorRedirectionUri = arg]
    ELSE [c EXCEPT !.errorRedirectionUri = NULL]

csrfp_errorCustomMessage_cmd(c, arg) ==
    IF Len(arg) > 0 THEN [c EXCEPT !.errorCustomMessage = arg]
    ELSE [c EXCEPT !.errorCustomMessage = NULL]

\* atoi(arg): an optional sign and the digits that follow it, 0 when there
\* are none; what comes after the digits is not looked at
atoi(arg) ==
    IF arg # <<>> /\ Head(arg) = "-" THEN 0 - LeadingDigits(Tail(arg), 0)
    ELSE IF arg # <<>> /\ Head(arg) = "+" THEN LeadingDigits(Tail(arg), 0)
    ELSE LeadingDigits(arg, 0)

\* a tokenLength directive that takes every length atoi reads but 0
csrfp_tokenLength_cmd_nofloor(c, arg) ==
    IF Len(arg) > 0 /\ atoi(arg) # 0 THEN [c EXCEPT !.tokenLength = atoi(arg)] ELSE c

csrfp_tokenLength_cmd(c, arg) ==
    IF Len(arg) > 0
    THEN IF atoi(arg) < DEFAULT_TOKEN_MINIMUM_LENGTH \/ atoi(arg) = 0 THEN c
         ELSE [c EXCEPT !.tokenLength = atoi(arg)]
    ELSE c

\* appends a getRuleNode holding patternString arg to the list
csrfp_verifyGetFor_cmd(rules, arg) ==
    IF Len(arg) > 0 THEN Append(rules, arg) ELSE rules

----------------------------------------------------------------------------
(* Request parsing                                                         *)

\* ap_getword(pool, &line, stop): the word before the first stop character
\* and the rest after the run of stop characters that follows it
RECURSIVE SkipStops(_, _)
SkipStops(s, stop) ==
    IF s # <<>> /\ Head(s) = stop THEN SkipStops(Tail(s), stop) ELSE s

ap_getword(line, stop) ==
    LET i == IndexOf(line, stop)
    IN  IF i = 0 THEN [word |-> line, rest |-> <<>>]
        ELSE [word |-> Take(line, i - 1), rest |-> SkipStops(Drop(line, i - 1), stop)]

\* csrfp_get_query for r->args != NULL: the table of name/value pairs
RECURSIVE csrfp_get_query(_)
csrfp_get_query(args) ==
    IF args = <<>> THEN <<>>
    ELSE LET w  == ap_getword(args, "&")
             nv == ap_getword(w.word, "=")
         IN  << <<nv.word, nv.rest>> >> \o csrfp_get_query(w.rest)

\* what a read past the end of a string yields
INDETERMINATE == <<"(indeterminate)">>

\* getCookieToken(r, key): ap_strstr_c finds key anywhere in the Cookie
\* header, the character after it is skipped, the value ends at ';'
getCookieToken(r, key) ==
    LET cookie == apr_table_get(r.headers_in, <<"Cookie">>)
    IN  IF cookie = NULL THEN NULL
        ELSE LET i == IndexOf(cookie, key[1])
             IN  IF i = 0 THEN NULL
                 ELSE IF i + 1 > Len(cookie) THEN INDETERMINATE
                 ELSE LET buffer == Drop(cookie, i + 1)
                          end    == IndexOf(buffer, ";")
                      IN  IF end = 0 THEN buffer ELSE Take(buffer, end - 1)

getCurrentUrl(r) == r.hostname \o r.uri

----------------------------------------------------------------------------
(* SQLite store                                                            *)

\* The statements are built with apr_psprintf("... = '%s'", v): v is pasted
\* between two quotes and sqlite parses the result.  A value without a quote
\* is a string literal.  A value of the form  x' OR '1'='1  reads as
\* 'x' OR '1'='1'.  Any other value with a quote does not parse here.
Tautology == <<"'", "OR", "'", "1", "'", "=", "'", "1">>

HasQuote(v) == \E i \in 1..Len(v) : v[i] = "'"

SqlValueKind(v) ==
    IF ~HasQuote(v) THEN "literal"
    ELSE IF EndsWith(v, Tautology) /\ ~HasQuote(Take(v, Len(v) - Len(Tautology)))
    THEN "or_true"
    ELSE "syntax_error"

SqlLiteral(v) ==
    IF SqlValueKind(v) = "or_true" THEN Take(v, Len(v) - Len(Tautology)) ELSE v

\* WHERE sessid = '<sessid>' AND token = '<value>' on one row; AND binds
\* tighter than OR
WhereSessidAndToken(row, sessid, value) ==
    LET sk == SqlValueKind(sessid)
        tk == SqlValueKind(value)
    IN  IF tk = "or_true" THEN TRUE
        ELSE IF sk = "or_true"
        THEN row.sessid = SqlLiteral(sessid) \/ row.token = value
        ELSE row.sessid = sessid /\ row.token = value

\* sqlite3 *db: the handle csrfp_sql_init returns
DB_NULL == "NULL"
DB_OPEN == "db"

\* csrfp_sql_init: outcome is what sqlite3_open_v2 and the CREATE TABLE
\* statements do.  leaked: a handle that was opened and is no longer reachable
InitOutcomes == {"ok", "open_error", "exec_error"}

csrfp_sql_init(outcome) ==
    [ db     |-> IF outcome = "ok" THEN DB_OPEN ELSE DB_NULL,
      leaked |-> outcome = "exec_error" ]

\* a match whose window closes one second early (>= for >)
csrfp_sql_match_timeoff(tbl, time, sessid, value) ==
    IF sessid = NULL \/ value = NULL THEN -1
    ELSE IF SqlValueKind(sessid) = "syntax_error" \/ SqlValueKind(value) = "syntax_error"
    THEN 1
    ELSE LET Test(row) == WhereSessidAndToken(row, sessid, value)
             res == SelectSeq(tbl, Test)
         IN  IF res = <<>> THEN 1
             ELSE IF time >= res[1].timestamp + TOKEN_EXPIRY_MAXTIME THEN -1
             ELSE 0

\* a lookup by session id alone, the token compared after the expiry test
csrfp_sql_match_bysession(tbl, time, sessid, value) ==
    IF sessid = NULL \/ value = NULL THEN -1
    ELSE LET Test(row) == row.sessid = sessid
             res == SelectSeq(tbl, Test)
         IN  IF res = <<>> THEN 1
             ELSE IF time > res[1].timestamp + TOKEN_EXPIRY_MAXTIME THEN -1
             ELSE IF res[1].token = value THEN 0
             ELSE 1

\* csrfp_sql_match: 0 match, -1 expired (or NULL argument), 1 no row,
\* rc of sqlite3_prepare_v2 (SQLITE_ERROR = 1) when the statement is bad
csrfp_sql_match(tbl, time, sessid, value) ==
    IF sessid = NULL \/ value = NULL THEN -1
    ELSE IF SqlValueKind(sessid) = "syntax_error" \/ SqlValueKind(value) = "syntax_error"
    THEN 1
    ELSE LET Test(row) == WhereSessidAndToken(row, sessid, value)
             res == SelectSeq(tbl, Test)
         IN  IF res = <<>> THEN 1
             ELSE IF time > res[1].timestamp + TOKEN_EXPIRY_MAXTIME THEN -1
             ELSE 0

\* csrfp_sql_get_token for a quote-free sessid: the token of the first row
\* of the session, NULL when there is none
csrfp_sql_get_token(tbl, sessid) ==
    LET Test(row) == row.sessid = sessid
        res == SelectSeq(tbl, Test)
    IN  IF res = <<>> THEN NULL ELSE res[1].token

\* csrfp_sql_addn for quote-free sessid and value: [rc, table]
csrfp_sql_addn(tbl, time, sessid, value) ==
    IF sessid = NULL \/ value = NULL THEN [rc |-> -1, table |-> tbl]
    ELSE IF \E i \in 1..Len(tbl) : tbl[i].sessid = sessid
    THEN [rc |-> 0,
          table |-> [i \in 1..Len(tbl) |->
                        IF tbl[i].sessid = sessid
                        THEN [tbl[i] EXCEPT !.token = value, !.timestamp = time]
                        ELSE tbl[i]]]
    ELSE [rc |-> 0,
          table |-> Append(tbl, [sessid |-> sessid, token |-> value, timestamp |-> time])]

\* a sweep that also deletes the rows issued exactly the expiry time ago
csrfp_sql_table_clean_inclusive(tbl, time, db) ==
    IF db = DB_NULL THEN tbl
    ELSE LET Keep(row) == ~(row.timestamp <= time - TOKEN_EXPIRY_MAXTIME)
         IN  SelectSeq(tbl, Keep)

\* csrfp_sql_table_clean: DELETE FROM CSRFP WHERE timestamp < time - expiry.
\* With db == NULL sqlite3_exec refuses the call (SQLITE_MISUSE).
csrfp_sql_table_clean(tbl, time, db) ==
    IF db = DB_NULL THEN tbl
    ELSE LET Keep(row) == ~(row.timestamp < time - TOKEN_EXPIRY_MAXTIME)
         IN  SelectSeq(tbl, Keep)

\* a counter update that returns the value it read, not the value it wrote
csrfp_sql_update_counter_stale(cnt) ==
    IF cnt # <<>>
    THEN [ret |-> cnt[1], counter |-> [i \in 1..Len(cnt) |-> cnt[i] + 1]]
    ELSE [ret |-> 0, counter |-> <<1>>]

\* csrfp_sql_update_counter run alone: SELECT counter FROM CSRFP_COUNTER;
\* with a row, UPDATE ... SET counter = counter + 1 (every row) and return
\* the value read plus one; without, INSERT the value 1 and return 1.
\* Gives [ret, counter]
csrfp_sql_update_counter(cnt) ==
    IF cnt # <<>>
    THEN [ret |-> cnt[1] + 1, counter |-> [i \in 1..Len(cnt) |-> cnt[i] + 1]]
    ELSE [ret |-> 1, counter |-> <<1>>]

----------------------------------------------------------------------------
(* Token issuance and validation                                           *)

SetCookie(name, value, httponly) ==
    << <<"Set-Cookie">>,
       name \o <<"=">> \o value \o <<";", " Version=1", ";", " Path=/", ";">>
            \o (IF httponly THEN <<" HttpOnly", ";">> ELSE <<>>) >>

\* an issuance that always sends a newly generated token
TokenToSend_fresh(stored, newToken) == newToken

\* the token setTokenCookie sends for a request that carries a session
\* cookie: csrfp_sql_get_token's result when the session has a row
TokenToSend(stored, newToken) == IF stored = NULL THEN newToken ELSE stored

\* the tail of setTokenCookie once sessid and token are chosen: put is what
\* csrfp_sql_addn gave, upd what csrfp_sql_update_counter gave
TokenCookieResult(c, hadCookie, sessid, token, put, upd) ==
    [ sessid  |-> sessid,
      token   |-> token,
      headers |-> << SetCookie(c.tokenName, token, FALSE),
                     SetCookie(CSRFP_SESS_TOKEN, sessid, TRUE) >>,
      putrc   |-> put.rc,
      calls   |-> (IF hadCookie THEN <<"get_token">> ELSE <<>>) \o <<"put", "counter">>,
      table   |-> put.table,
      reseed  |-> upd.ret = RESEED_RAND_AT,
      counter |-> IF upd.ret = RESEED_RAND_AT
                  THEN [i \in 1..Len(upd.counter) |-> 0]
                  ELSE upd.counter ]

SendToken(tbl, cnt, time, c, hadCookie, sessid, token) ==
    TokenCookieResult(c, hadCookie, sessid, token,
                      csrfp_sql_addn(tbl, time, sessid, token),
                      csrfp_sql_update_counter(cnt))

\* setTokenCookie for the session id cookieSess that getCookieToken found
setTokenCookieFor(tbl, cnt, time, c, cookieSess, newToken, newSessid) ==
    IF cookieSess = NULL
    THEN SendToken(tbl, cnt, time, c, FALSE, newSessid, newToken)
    ELSE SendToken(tbl, cnt, time, c, TRUE, cookieSess,
                   TokenToSend(csrfp_sql_get_token(tbl, cookieSess), newToken))

\* setTokenCookie(r, db) with db open.  newToken and newSessid are what the
\* two generateToken calls would return.  Gives the session id and token
\* sent, the headers added, and the two tables afterwards.
setTokenCookie(tbl, cnt, time, c, r, newToken, newSessid) ==
    setTokenCookieFor(tbl, cnt, time, c, getCookieToken(r, CSRFP_SESS_TOKEN),
                      newToken, newSessid)

\* the candidate token validateToken extracts: from the query table when
\* r->args is set, else from the header named conf->tokenName
TokenValue(r, c) ==
    IF r.args # NULL THEN apr_table_get(csrfp_get_query(r.args), c.tokenName)
    ELSE apr_table_get(r.headers_in, c.tokenName)

\* the verifying half of validateToken
VerifyToken(tbl, time, tokenValue, sessid) ==
    IF tokenValue = NULL THEN 0
    ELSE IF sessid = NULL THEN 0
    ELSE IF csrfp_sql_match(tbl, time, sessid, tokenValue) = 0 THEN 1
    ELSE 0

\* validateToken: 1 passed, 0 failed
validateToken(r, tbl, time, c) ==
    VerifyToken(tbl, time, TokenValue(r, c), getCookieToken(r, CSRFP_SESS_TOKEN))

\* a NULL pointer handed to strlen ends the child process
SEGFAULT == "SEGFAULT"

\* a failure action that answers 403 whatever conf->action is
failedValidationAction_forbidden(r, c) ==
    [ret |-> HTTP_FORBIDDEN, args |-> r.args, headers |-> <<>>, printed |-> <<>>,
     discarded |-> FALSE]

\* a failure action whose strip lets the request through as it came
failedValidationAction_keep(r, c) ==
    [ret |-> IF c.action = "strip" THEN OK ELSE HTTP_FORBIDDEN, args |-> r.args,
     headers |-> <<>>, printed |-> <<>>, discarded |-> FALSE]

\* failedValidationAction: the status returned, r->args afterwards, the
\* headers added, what was written with ap_rprintf, and whether the request
\* body was discarded
failedValidationAction(r, c) ==
    LET same == [ret |-> HTTP_FORBIDDEN, args |-> r.args, headers |-> <<>>,
                 printed |-> <<>>, discarded |-> FALSE]
    IN  CASE c.action = "forbidden" -> same
          [] c.action = "strip" ->
                IF r.method = "GET" /\ r.args # NULL
                THEN [same EXCEPT !.ret = OK, !.args = <<>>]
                ELSE IF r.method = "POST"
                THEN [same EXCEPT !.ret = OK, !.discarded = TRUE,
                        !.headers = << << <<"POST_DATA_CLEARING">>, <<"reached">> >> >>]
                ELSE [same EXCEPT !.ret = OK]
          [] c.action = "redirect" ->
                IF c.errorRedirectionUri = NULL THEN [same EXCEPT !.ret = SEGFAULT]
                ELSE IF Len(c.errorRedirectionUri) > 0
                THEN [same EXCEPT !.ret = HTTP_MOVED_PERMANENTLY,
                        !.headers = << << <<"Location">>, c.errorRedirectionUri >> >>]
                ELSE same
          [] c.action = "message" ->
                [same EXCEPT !.ret = DONE,
                    !.printed = <<"<h2>">> \o c.errorCustomMessage \o <<"</h2>">>]
          [] c.action = "internal_server_error" ->
                [same EXCEPT !.ret = HTTP_INTERNAL_SERVER_ERROR]
          [] OTHER -> same

\* needvalidation: [ret, env]
needvalidation(r, e) ==
    IF CSRFP_IGNORE_TEXT \in e THEN [ret |-> 0, env |-> e]
    ELSE LET slash == LastIndexFrom(r.uri, "/", Len(r.uri))
             path  == IF slash = 0 THEN r.uri ELSE Drop(r.uri, slash - 1)
         IN  IF IgnorePatternMatches(path)
             THEN [ret |-> 0, env |-> e \cup {CSRFP_IGNORE_TEXT}]
             ELSE [ret |-> 1, env |-> e]

\* ap_regexec(p->pattern, url, ...) == 0 for a rule compiled with flags 0
RuleMatches(pattern, url) == Contains(url, pattern)

Http == <<"h","t","t","p",":","/","/">>
Https == <<"h","t","t","p","s",":","/","/">>

\* the rules of the list that the current url matches under either scheme
MatchingRules(rules, r) ==
    { i \in 1..Len(rules) :
        \/ RuleMatches(rules[i], Http \o getCurrentUrl(r))
        \/ RuleMatches(rules[i], Https \o getCurrentUrl(r)) }

StoreCall(op, db) == [op |-> op, db |-> db]

\* what csrfp_header_parser leaves when it returns OK at once
HookNothing(r, e) ==
    [ret |-> OK, env |-> e, headers |-> <<>>, args |-> r.args, printed |-> <<>>,
     discarded |-> FALSE, calls |-> <<>>, leaked |-> FALSE, validated |-> FALSE]

\* a failing hook that marks the request for regeneration all the same
HookFailed_marked(e, fva, calls) ==
    [ret |-> fva.ret, env |-> e \cup {"regen_csrfptoken"}, headers |-> fva.headers,
     args |-> fva.args, printed |-> fva.printed, discarded |-> fva.discarded,
     calls |-> calls, leaked |-> FALSE, validated |-> TRUE]

\* return failedValidationAction(r), fva being what it did
HookFailed(e, fva, calls) ==
    [ret |-> fva.ret, env |-> e, headers |-> fva.headers, args |-> fva.args,
     printed |-> fva.printed, discarded |-> fva.discarded, calls |-> calls,
     leaked |-> FALSE, validated |-> TRUE]

\* the end of csrfp_header_parser: close, the two environment variables,
\* the X-Protected-By header
HookPassed(r, e, calls, v) ==
    [ret |-> OK, env |-> e \cup {"regen_csrfptoken", "mod_csrfp_enabled"},
     headers |-> << << <<"X-Protected-By">>, <<"CSRFP 0.0.1">> >> >>,
     args |-> r.args, printed |-> <<>>, discarded |-> FALSE, calls |-> calls,
     leaked |-> FALSE, validated |-> v]

\* a hook that validates every GET
GetRuleHits_all(rules, r) == 1

\* number of rules of the list that make a GET request validate its token
GetRuleHits(rules, r) == Cardinality(MatchingRules(rules, r))

\* a hook that validates the token of a request of any method
HookMethod_anymethod(r, c, e, db, valid, hits) ==
    IF ~valid
    THEN HookFailed(e, failedValidationAction(r, c),
                    << StoreCall("open", db), StoreCall("validate", db) >>)
    ELSE HookPassed(r, e, << StoreCall("open", db), StoreCall("validate", db),
                             StoreCall("close", db) >>, TRUE)

\* csrfp_header_parser from the method test on: db is open, valid is what
\* validateToken gives when called, hits the number of rules that call it
HookMethod(r, c, e, db, valid, hits) ==
    IF r.method = "POST" /\ ~valid
    THEN HookFailed(e, failedValidationAction(r, c),
                    << StoreCall("open", db), StoreCall("validate", db) >>)
    ELSE IF r.method = "GET" /\ hits > 0 /\ ~valid
    THEN HookFailed(e, failedValidationAction(r, c),
                    << StoreCall("open", db), StoreCall("validate", db),
                       StoreCall("close", db) >>)
    ELSE HookPassed(r, e,
                    << StoreCall("open", db) >>
                    \o [i \in 1..(IF r.method = "POST" THEN 1
                                  ELSE IF r.method = "GET" THEN hits ELSE 0) |->
                           StoreCall("validate", db)]
                    \o << StoreCall("close", db) >>,
                    r.method = "POST" \/ (r.method = "GET" /\ hits > 0))

\* a hook that goes on to the method test when csrfp_sql_init gave NULL
HookEnabled_nonfatal(r, c, rules, tbl, time, nv, init) ==
    IF nv.ret = 0 THEN HookNothing(r, nv.env)
    ELSE HookMethod(r, c, nv.env, init.db,
                    init.db # DB_NULL /\ validateToken(r, tbl, time, c) = 1,
                    GetRuleHits(rules, r))

\* csrfp_header_parser after the conf->flag test
HookEnabled(r, c, rules, tbl, time, nv, init) ==
    IF nv.ret = 0 THEN HookNothing(r, nv.env)
    ELSE IF init.db = DB_NULL
    THEN [HookNothing(r, nv.env) EXCEPT !.ret = DONE,
                                        !.calls = << StoreCall("open", DB_NULL) >>,
                                        !.leaked = init.leaked]
    ELSE HookMethod(r, c, nv.env, init.db, validateToken(r, tbl, time, c) = 1,
                    GetRuleHits(rules, r))

\* csrfp_header_parser.  outcome is what csrfp_sql_init meets.  Gives the
\* hook's return value, the environment, the headers added, r->args, and the
\* store calls made in order.
csrfp_header_parser(r, c, rules, tbl, time, e, outcome) ==
    IF c.flag = "CSRFP_FALSE" THEN HookNothing(r, e)
    ELSE HookEnabled(r, c, rules, tbl, time, needvalidation(r, e), csrfp_sql_init(outcome))

----------------------------------------------------------------------------
(* Output filter: buckets and the marker search                            *)

\* A bucket: type "data", "EOS" or "FLUSH"; data are the bytes
\* apr_bucket_read returns (nbytes = Len(data)); tail are the bytes that lie
\* in memory after them up to the first NUL, which strlen(buf) and
\* apr_pstrcat read as part of buf.
Bucket(type, data, tail) == [type |-> type, data |-> data, tail |-> tail]

DataBucket(data) == Bucket("data", data, <<>>)
EOS == Bucket("EOS", <<>>, <<>>)
FLUSH == Bucket("FLUSH", <<>>, <<>>)

APR_BUCKET_IS_METADATA(b) == b.type # "data"

NUL == "\\0"

\* s[i] of a NUL terminated string, i counted from 0
CharAt(s, i) == IF i >= 0 /\ i < Len(s) THEN s[i + 1] ELSE NUL

\* apr_cpystrn(dst, src, dst_size): at most dst_size - 1 characters
apr_cpystrn(src, dst_size) == Take(src, dst_size - 1)

BodyOpen == <<"<", "b", "o", "d", "y">>
BodyClose == <<"<", "/", "b", "o", "d", "y", ">">>
CSRFP_OVERLAP_BUCKET_DEFAULT == <<"-", "-", "-", "-", "-", "-", "-", "-">>

\* sizeof buf in csrfp_out_filter, buf being a const char * (LP64 build)
SizeofCharPtr == 8

\* csrfp_strncasestr(s1, s2, len) for s2 # NULL: offset of the match in s1,
\* -1 for NULL.  a is s1 - start, k is p1 - s1 = p2 - s2, e1 = len - 1.
RECURSIVE StrncaseRest(_, _, _, _, _)
StrncaseRest(s1, s2, a, k, e1) ==
    IF apr_tolower(CharAt(s1, a + k)) = apr_tolower(CharAt(s2, k)) /\ a + k <= e1
    THEN IF CharAt(s2, k) = NUL THEN k
         ELSE StrncaseRest(s1, s2, a, k + 1, e1)
    ELSE k

RECURSIVE StrncaseFrom(_, _, _, _)
StrncaseFrom(s1, s2, a, e1) ==
    IF CharAt(s1, a) = NUL \/ a > e1 THEN -1
    ELSE IF apr_tolower(CharAt(s1, a)) # apr_tolower(CharAt(s2, 0))
    THEN StrncaseFrom(s1, s2, a + 1, e1)
    ELSE LET k == StrncaseRest(s1, s2, a, 1, e1)
         IN  IF CharAt(s2, k) = NUL THEN a
             ELSE StrncaseFrom(s1, s2, a + 1, e1)

csrfp_strncasestr(s1, s2, len) ==
    IF s2 = <<>> THEN 0 ELSE StrncaseFrom(s1, s2, 0, len - 1)


\* the rule patterns, each quoted, joined by commas
RECURSIVE GetRuleString(_)
GetRuleString(rules) ==
    IF rules = <<>> THEN <<>>
    ELSE <<"'">> \o Head(rules) \o <<"'">>
         \o (IF Tail(rules) = <<>> THEN <<>> ELSE <<",">> \o GetRuleString(Tail(rules)))

\* csrfp_get_rctx when the request has no context yet
csrfp_get_rctx(c, rules) ==
    [ state       |-> "op_init",
      search      |-> BodyOpen,
      noscript    |-> <<"\n<noscript>\n">> \o c.disablesJsMessage \o <<"\n</noscript>">>,
      script      |-> <<"\n<script src=">> \o c.jsFilePath \o <<" checkForUrls=[">>
                        \o GetRuleString(rules)
                        \o <<"] CSRFP_TOKEN=">> \o c.tokenName \o <<"</script>\n">>,
      clstate     |-> "nmodified",
      overlap_buf |-> apr_cpystrn(CSRFP_OVERLAP_BUCKET_DEFAULT, CSRFP_OVERLAP_BUCKET_SIZE) ]

\* the bucket csrfp_inject creates: 0 <noscript>, 1 <script>
Payload(ctx, flag) == DataBucket(IF flag = 1 THEN ctx.script ELSE ctx.noscript)

\* apr_bucket_split(b, sz) succeeds for 0 <= sz <= b->length
SplitOk(b, sz) == sz >= 0 /\ sz <= Len(b.data)

\* what apr_bucket_split and APR_BUCKET_INSERT_BEFORE leave in place of
\* bucket b.  When the split fails b is left whole, and the new bucket goes
\* before the bucket after it.
InjectParts(b, payload, sz) ==
    IF SplitOk(b, sz)
    THEN << Bucket("data", Take(b.data, sz), Drop(b.data, sz) \o b.tail),
            payload,
            Bucket("data", Drop(b.data, sz), b.tail) >>
    ELSE << b, payload >>

\* an injection whose script insertion starts the search over
csrfp_inject_reopen(bb, i, ctx, sz, flag) ==
    [ bb  |-> SubSeq(bb, 1, i - 1) \o InjectParts(bb[i], Payload(ctx, flag), sz)
                  \o SubSeq(bb, i + 1, Len(bb)),
      i   |-> i + 2,
      ctx |-> IF flag = 1
              THEN [ctx EXCEPT !.state = "op_init", !.search = BodyOpen]
              ELSE [ctx EXCEPT !.state = "op_body_init",
                               !.search = apr_cpystrn(BodyClose, Len(BodyClose))] ]

\* csrfp_inject on bucket bb[i]: the brigade, the index of the bucket
\* returned, and the context
csrfp_inject(bb, i, ctx, sz, flag) ==
    [ bb  |-> SubSeq(bb, 1, i - 1) \o InjectParts(bb[i], Payload(ctx, flag), sz)
                  \o SubSeq(bb, i + 1, Len(bb)),
      i   |-> i + 2,
      ctx |-> IF flag = 1
              THEN [ctx EXCEPT !.state = "op_body_end", !.search = NULL]
              ELSE [ctx EXCEPT !.state = "op_body_init",
                               !.search = apr_cpystrn(BodyClose, Len(BodyClose))] ]

\* the loop  for ( ; *c != '>'; offset++, c++)  over the string c, left with
\* flag set when offset + markerlen == buflen.  Gives the offset reached and
\* how the loop ended: "found", "flag", or "overrun" when c runs past the
\* terminating NUL of the string.
RECURSIVE BracketLoop(_, _, _)
BracketLoop(c, offset, limit) ==
    IF CharAt(c, offset) = ">" THEN [end |-> "found", offset |-> offset]
    ELSE IF offset = limit THEN [end |-> "flag", offset |-> offset]
    ELSE IF offset >= Len(c) THEN [end |-> "overrun", offset |-> offset]
    ELSE BracketLoop(c, offset + 1, limit)

\* The scan of csrfp_out_filter.  ScanFor is the head of the for loop with b
\* the bucket at index i (Len(bb) + 1 is the sentinel); ScanRestart is the
\* label restart with findBracketOnly = fbo; ScanMarker is the code after
\* csrfp_strncasestr returned marker (an offset into nbuf, -1 for NULL);
\* ScanBracket the code after the loop that looks for '>'; ScanInjected
\* the code after a call of csrfp_inject.  fault: the scan read the brigade
\* sentinel as a bucket, read past the end of a string, or handed a NULL
\* search to csrfp_strncasestr.
RECURSIVE ScanFor(_, _, _), ScanRestart(_, _, _, _), ScanMarker(_, _, _, _, _, _, _),
          ScanBracket(_, _, _, _, _, _), ScanInjected(_, _)
ScanFor(bb, i, ctx) ==
    IF i > Len(bb) THEN [bb |-> bb, ctx |-> ctx, fault |-> FALSE]
    ELSE IF bb[i].type = "EOS"
    THEN ScanFor(SubSeq(bb, 1, i - 1) \o <<FLUSH>> \o SubSeq(bb, i, Len(bb)), i + 2, ctx)
    ELSE IF APR_BUCKET_IS_METADATA(bb[i]) THEN ScanFor(bb, i + 1, ctx)
    ELSE ScanRestart(bb, i, ctx, 0)

ScanRestart(bb, i, ctx, fbo) ==
    IF i > Len(bb) THEN [bb |-> bb, ctx |-> ctx, fault |-> TRUE]
    ELSE IF Len(bb[i].data) = 0 THEN ScanFor(bb, i + 1, ctx)
    ELSE IF ctx.search = NULL THEN [bb |-> bb, ctx |-> ctx, fault |-> TRUE]
    ELSE ScanMarker(bb, i, ctx, fbo, bb[i].data \o bb[i].tail,
                    ctx.overlap_buf \o bb[i].data \o bb[i].tail,
                    csrfp_strncasestr(ctx.overlap_buf \o bb[i].data \o bb[i].tail,
                                      ctx.search, Len(bb[i].data)))

ScanMarker(bb, i, ctx, fbo, buf, nbuf, marker) ==
    IF fbo # 0
    THEN ScanBracket(bb, i, ctx, fbo, 0, BracketLoop(buf, 0, Len(buf)))
    ELSE IF marker < 0
    THEN ScanFor(bb, i + 1,
                 [ctx EXCEPT !.overlap_buf =
                     apr_cpystrn(Drop(buf, SizeofCharPtr - CSRFP_OVERLAP_BUCKET_SIZE),
                                 CSRFP_OVERLAP_BUCKET_SIZE)])
    ELSE IF ctx.state = "op_init"
    THEN ScanBracket(bb, i, ctx, fbo, Len(buf) - (Len(nbuf) - marker),
                     BracketLoop(Drop(nbuf, marker), 0, Len(buf) - (Len(nbuf) - marker)))
    ELSE IF ctx.state = "op_body_init"
    THEN ScanInjected(1, csrfp_inject(bb, i, ctx,
                                      Len(buf) - (Len(nbuf) - marker) + Len(BodyClose), 1))
    ELSE ScanFor(bb, i + 1, ctx)

ScanBracket(bb, i, ctx, fbo, sz, loop) ==
    IF loop.end = "overrun" THEN [bb |-> bb, ctx |-> ctx, fault |-> TRUE]
    ELSE IF loop.end = "found"
    THEN ScanInjected(0, csrfp_inject(bb, i, ctx, sz + loop.offset + 1, 0))
    ELSE ScanRestart(bb, i + 1, ctx, fbo + 1)

ScanInjected(flag, inj) ==
    IF flag = 0 THEN ScanRestart(inj.bb, inj.i, inj.ctx, 0)
    ELSE ScanFor(inj.bb, inj.i + 1, inj.ctx)

----------------------------------------------------------------------------
(* Output filter: headers, token regeneration, the filter itself           *)

apr_table_unset(t, key) ==
    LET Other(e) == ~strcasecmp0(e[1], key) IN SelectSeq(t, Other)

apr_table_addn(t, key, val) == Append(t, <<key, val>>)

apr_table_set(t, key, val) ==
    IF apr_table_get(t, key) = NULL THEN Append(t, <<key, val>>)
    ELSE LET first == CHOOSE i \in 1..Len(t) :
                          /\ strcasecmp0(t[i][1], key)
                          /\ \A j \in 1..(i - 1) : ~strcasecmp0(t[j][1], key)
         IN  SubSeq(t, 1, first - 1) \o << <<key, val>> >>
                 \o apr_table_unset(SubSeq(t, first + 1, Len(t)), key)

\* strlen of a string of atoms, in characters
RECURSIVE strlen(_)
strlen(s) == IF s = <<>> THEN 0 ELSE Len(Head(s)) + strlen(Tail(s))

\* apr_strtoff(&s, cl, &errp, 10): strtol reads the leading digits and
\* stops at the first other character; the only error is ERANGE
apr_strtoff(cl) ==
    [ success |-> CountDigits(cl) <= 18, value |-> LeadingDigits(cl, 0) ]

\* apr_psprintf("%" APR_OFF_T_FMT, s) for s >= 0
RECURSIVE OffToStr(_)
OffToStr(n) ==
    IF n < 10 THEN <<Digits[n + 1]>> ELSE OffToStr(n \div 10) \o <<Digits[(n % 10) + 1]>>

\* getOutputContentType
getOutputContentType(hout, herr, content_type) ==
    LET t1 == apr_table_get(hout, <<"Content-Type">>)
        t2 == IF t1 = NULL THEN apr_table_get(herr, <<"Content-Type">>) ELSE t1
    IN  IF t2 = NULL THEN content_type ELSE t2

\* strncasecmp(type, "text/html", 9) == 0 || strncasecmp(type, "text/xhtml", 10) == 0
\* for a type whose first atom is its first 9 or 10 characters
IsHtmlType(type) ==
    /\ type # NULL
    /\ type # <<>>
    /\ apr_tolower(type[1]) \in {"text/html", "text/xhtml"}

\* the Content-Length branch once apr_strtoff has parsed cl into p; errh
\* says the header was found in r->err_headers_out
AdjustParsed(ctx, hout, herr, chunked, errh, p) ==
    IF p.success
    THEN [ hout |-> IF errh THEN hout
                    ELSE apr_table_set(hout, <<"Content-Length">>,
                             OffToStr(p.value + strlen(ctx.script) + strlen(ctx.noscript))),
           herr |-> IF errh
                    THEN apr_table_set(herr, <<"Content-Length">>,
                             OffToStr(p.value + strlen(ctx.script) + strlen(ctx.noscript)))
                    ELSE herr,
           chunked |-> chunked, clstate |-> "modified" ]
    ELSE [ hout |-> IF errh THEN hout ELSE apr_table_unset(hout, <<"Content-Length">>),
           herr |-> IF errh THEN apr_table_unset(herr, <<"Content-Length">>) ELSE herr,
           chunked |-> TRUE, clstate |-> "modified" ]

AdjustFound(ctx, hout, herr, chunked, errh, cl) ==
    IF cl = NULL
    THEN [hout |-> hout, herr |-> herr, chunked |-> chunked, clstate |-> ctx.clstate]
    ELSE AdjustParsed(ctx, hout, herr, chunked, errh, apr_strtoff(cl))

\* the op_init block of csrfp_out_filter for an html response: the two
\* header tables and r->chunked afterwards
AdjustContentLength(ctx, hout, herr, chunked) ==
    IF apr_table_get(hout, <<"Content-Length">>) # NULL
    THEN AdjustFound(ctx, hout, herr, chunked, FALSE,
                     apr_table_get(hout, <<"Content-Length">>))
    ELSE AdjustFound(ctx, hout, herr, chunked, TRUE,
                     apr_table_get(herr, <<"Content-Length">>))

\* The regeneration block at the end of csrfp_out_filter, entered when
\* regen_csrfptoken is "true", init being what csrfp_sql_init returned and
\* stc what setTokenCookie does with an open handle.  With db == NULL
\* setTokenCookie is skipped, and csrfp_sql_table_clean and sqlite3_close
\* are still called with the NULL handle: sqlite3_exec refuses it and leaves
\* zErrMsg unset, which ap_log_rerror then prints with %s; badptr says
\* whether that read of an indeterminate pointer faults.
RegenWith(tbl, cnt, time, hout, init, stc, badptr) ==
    IF init.db = DB_NULL
    THEN [ table |-> csrfp_sql_table_clean(tbl, time, DB_NULL), counter |-> cnt,
           hout |-> hout, issued |-> <<>>, leaked |-> init.leaked, fault |-> badptr,
           calls |-> << StoreCall("open", DB_NULL), StoreCall("sweep", DB_NULL) >>
                     \o (IF badptr THEN <<>> ELSE << StoreCall("close", DB_NULL) >>) ]
    ELSE [ table |-> csrfp_sql_table_clean(stc.table, time, init.db),
           counter |-> stc.counter,
           hout |-> hout \o stc.headers,
           issued |-> << [sessid |-> stc.sessid, token |-> stc.token,
                          putrc |-> stc.putrc, reseed |-> stc.reseed, time |-> time,
                          swept |-> Len(stc.table)
                                    - Len(csrfp_sql_table_clean(stc.table, time, init.db))] >>,
           leaked |-> init.leaked, fault |-> FALSE,
           calls |-> << StoreCall("open", init.db) >>
                     \o [i \in 1..Len(stc.calls) |-> StoreCall(stc.calls[i], init.db)]
                     \o << StoreCall("sweep", init.db), StoreCall("close", init.db) >> ]

RegenBlock(tbl, cnt, time, c, r, hout, outcome, newToken, newSessid, badptr) ==
    RegenWith(tbl, cnt, time, hout, csrfp_sql_init(outcome),
              setTokenCookie(tbl, cnt, time, c, r, newToken, newSessid), badptr)

\* the request has no filter context yet (ap_get_module_config gives NULL)
NoCtx == [state |-> "none"]

\* the if (rctx->state == op_init) block: the context, the two header
\* tables, r->chunked, and whether the filter removed itself
OpInitHtml(ctx, adj) ==
    [ ctx |-> [ctx EXCEPT !.clstate = adj.clstate], hout |-> adj.hout, herr |-> adj.herr,
      chunked |-> adj.chunked, removed |-> FALSE ]

OpInit(ctx, x) ==
    IF ctx.state # "op_init"
    THEN [ctx |-> ctx, hout |-> x.hout, herr |-> x.herr, chunked |-> x.chunked,
          removed |-> FALSE]
    ELSE IF ~IsHtmlType(getOutputContentType(x.hout, x.herr, x.content_type))
    THEN [ctx |-> [ctx EXCEPT !.state = "op_end", !.search = NULL],
          hout |-> x.hout, herr |-> x.herr, chunked |-> x.chunked, removed |-> TRUE]
    ELSE OpInitHtml(ctx, AdjustContentLength(ctx, x.hout, x.herr, x.chunked))

\* the if (rctx->search) block
ScanStage(bb, ctx) ==
    IF ctx.search # NULL THEN ScanFor(bb, 1, ctx)
    ELSE [bb |-> bb, ctx |-> ctx, fault |-> FALSE]

\* what csrfp_out_filter leaves: x with the fields it changed, the brigade
\* handed to ap_pass_brigade, whether ap_remove_output_filter was called,
\* the store calls made, the tokens issued, and whether the run faulted
FilterResult(x, e, ctx, hdr, bb, removed, scanned, fault) ==
    [ env |-> e, rctx |-> ctx, hout |-> hdr.hout, herr |-> hdr.herr,
      content_type |-> x.content_type, chunked |-> hdr.chunked,
      table |-> x.table, counter |-> x.counter,
      bb |-> IF fault THEN <<>> ELSE bb, removed |-> removed, scanned |-> scanned,
      calls |-> <<>>, issued |-> <<>>, leaked |-> FALSE, fault |-> fault ]

\* csrfp_out_filter after the regeneration block did rg
FilterRegenerated(res, rg) ==
    [res EXCEPT !.table = rg.table, !.counter = rg.counter, !.hout = rg.hout,
                !.calls = rg.calls, !.issued = rg.issued, !.leaked = rg.leaked,
                !.fault = rg.fault, !.bb = IF rg.fault THEN <<>> ELSE res.bb]

\* csrfp_out_filter after the scan: in holds what this run draws from
\* outside the request
FilterScanned(x, e, r, c, time, in, ini, scan) ==
    IF scan.fault
    THEN FilterResult(x, e, scan.ctx, ini, <<>>, FALSE, TRUE, TRUE)
    ELSE IF "regen_csrfptoken" \notin e
    THEN FilterResult(x, e, scan.ctx, ini, scan.bb, ini.removed,
                      ini.ctx.search # NULL, FALSE)
    ELSE FilterRegenerated(
             FilterResult(x, e, scan.ctx, ini, scan.bb, ini.removed,
                          ini.ctx.search # NULL, FALSE),
             RegenBlock(x.table, x.counter, time, c, r, ini.hout, in.outcome,
                        in.newToken, in.newSessid, in.badptr))

FilterOpInit(bb, x, e, r, c, time, in, ini) ==
    FilterScanned(x, e, r, c, time, in, ini, ScanStage(bb, ini.ctx))

FilterNeeded(bb, x, r, c, rules, time, in, nv) ==
    IF nv.ret = 0
    THEN FilterResult(x, nv.env, x.rctx, x, bb, TRUE, FALSE, FALSE)
    ELSE FilterOpInit(bb, x, nv.env, r, c, time, in,
                      OpInit(IF x.rctx = NoCtx THEN csrfp_get_rctx(c, rules) ELSE x.rctx, x))

\* csrfp_out_filter on brigade bb.  x holds the request state the filter
\* reads and writes: env, rctx (NoCtx before the first run), hout
\* (r->headers_out), herr (r->err_headers_out), content_type, chunked, and
\* the two tables.
csrfp_out_filter(bb, x, r, c, rules, time, outcome, newToken, newSessid, badptr) ==
    FilterNeeded(bb, x, r, c, rules, time,
                 [outcome |-> outcome, newToken |-> newToken, newSessid |-> newSessid,
                  badptr |-> badptr],
                 needvalidation(r, x.env))

----------------------------------------------------------------------------
(* Inputs and bounds                                                       *)

MaxRequests == 2
MaxTicks == 2

Tokens == { <<"tokA">>, <<"tokB">> }

\* what the two generateToken calls of one setTokenCookie return
FreshPairs == { [token |-> <<"tokA">>, sessid |-> <<"sidA">>],
                [token |-> <<"tokB">>, sessid |-> <<"sidB">>] }

Hostname == <<"h">>
UriPage == <<"/", "p">>
UriRule == <<"/", "r">>
UriAsset == <<"/", "a", ".", "j", "s">>

\* Cookie request headers: none, the session cookie, and a cookie of another
\* name whose name ends with the session cookie's name
CookieOf(sid) == CSRFP_SESS_TOKEN \o <<"=">> \o sid
CookieDecoy(sid) == <<"X">> \o CSRFP_SESS_TOKEN \o <<"=">> \o sid
CookieHeaders == { NULL, CookieOf(<<"sidA">>), CookieOf(<<"sidB">>), CookieDecoy(<<"sidA">>) }

QueryOf(tok) == CSRFP_TOKEN \o <<"=">> \o tok

\* where the candidate token travels: [args, hdr], NULL for absent
NoCarrier == [args |-> NULL, hdr |-> NULL]
InHeader(tok) == [args |-> NULL, hdr |-> tok]
InQuery(tok) == [args |-> QueryOf(tok), hdr |-> NULL]

HeadersIn(cookie, hdr) ==
    (IF cookie = NULL THEN <<>> ELSE << << <<"Cookie">>, cookie >> >>)
    \o (IF hdr = NULL THEN <<>> ELSE << << CSRFP_TOKEN, hdr >> >>)

Request(method, uri, carrier, cookie) ==
    [ method |-> method, hostname |-> Hostname, uri |-> uri,
      args |-> carrier.args, headers_in |-> HeadersIn(cookie, carrier.hdr) ]

Requests ==
    { Request("POST", UriPage, InHeader(<<"tokA">>), k) : k \in CookieHeaders }
    \cup { Request("POST", UriPage, t, CookieOf(<<"sidA">>)) :
             t \in { NoCarrier, InHeader(<<"tokB">>), InHeader(Tautology),
                     InQuery(<<"tokA">>) } }
    \cup { Request("GET", UriRule, NoCarrier, NULL),
           Request("GET", UriRule, InQuery(<<"tokA">>), CookieOf(<<"sidA">>)) }
    \cup { Request("GET", UriPage, NoCarrier, k) :
             k \in { NULL, CookieOf(<<"sidA">>), CookieOf(<<"sidB">>) } }
    \cup { Request("PUT", UriPage, NoCarrier, CookieOf(<<"sidA">>)),
           Request("GET", UriAsset, NoCarrier, NULL) }

NoRequest == Request("", <<>>, NoCarrier, NULL)

\* configurations the directives can produce
Configs == { csrfp_action_cmd(csrfp_srv_config_create, <<a>>) : a \in {"forbidden", "strip"} }
RuleLists == { csrfp_verifyGetFor_cmd(<<>>, UriRule) }

\* responses of the content generator
HtmlText ==
    <<"<", "h", ">", "<", "b", "o", "d", "y", ">", "h", "i", "<", "/", "b", "o", "d", "y",
      ">", "<", "/", "h", "t", "m", "l", ">", "x", "x">>

Response(type, clen, brigades) ==
    [ hout |-> (IF type = NULL THEN <<>> ELSE << << <<"Content-Type">>, type >> >>)
               \o (IF clen = NULL THEN <<>> ELSE << << <<"Content-Length">>, clen >> >>),
      herr |-> <<>>, content_type |-> type, chunked |-> FALSE, brigades |-> brigades ]

Responses ==
    { Response(<<"text/html">>, <<"2", "7">>, << <<DataBucket(HtmlText), EOS>> >>),
      Response(<<"image/png">>, <<"4">>,
               << <<DataBucket(<<"<", "b">>)>>, <<DataBucket(<<"o", "d">>), EOS>> >>) }

NoResponse == Response(NULL, NULL, <<>>)

NoHook == [ ran |-> FALSE, outcome |-> "ok", time |-> 0, ret |-> OK, calls |-> <<>>,
            leaked |-> FALSE, validated |-> FALSE, printed |-> <<>>,
            discarded |-> FALSE, args |-> NULL ]

NoFilter == [ active |-> FALSE, runs |-> 0, calls |-> <<>>, issued |-> <<>>,
              fault |-> FALSE, leaked |-> FALSE ]

\* no child is inside setTokenCookie
NoProcs == <<>>

\* how many of the issuances reached the reseed block of setTokenCookie
Reseeds(issued) == Cardinality({ i \in 1..Len(issued) : issued[i].reseed })

\* clock steps taken to reach time t from 0 with steps of 1 and of the expiry time
TickCount(t) == (t \div TOKEN_EXPIRY_MAXTIME) + (t % TOKEN_EXPIRY_MAXTIME)

----------------------------------------------------------------------------
(* The server                                                              *)

Init ==
    /\ table = <<>>
    /\ counter = <<>>
    /\ now = 0
    /\ conf \in Configs
    /\ getRules \in RuleLists
    /\ status = "idle"
    /\ req = NoRequest
    /\ env = {}
    /\ headers_out = <<>>
    /\ hook = NoHook
    /\ rctx = NoCtx
    /\ resp = NoResponse
    /\ passed = <<>>
    /\ flt = NoFilter
    /\ hist = [nreq |-> 0, puts |-> {}, issuances |-> 0, reseeds |-> 0]
    /\ procs = NoProcs

\* time passes between requests
Tick ==
    /\ status = "idle"
    /\ TickCount(now) < MaxTicks
    /\ \E d \in {1, TOKEN_EXPIRY_MAXTIME} : now' = now + d
    /\ UNCHANGED <<table, counter, conf, getRules, status, req, env, headers_out,
                   hook, rctx, resp, passed, flt, hist, procs>>

\* csrfp_sql_init is reached by every request of an enabled module whose
\* path the ignore pattern does not match
HookOutcomes(r) ==
    IF conf.flag = "CSRFP_FALSE" \/ needvalidation(r, {}).ret = 0
    THEN {"ok"} ELSE InitOutcomes

\* the request state after csrfp_header_parser did h on request r
AfterHook(r, outcome, h) ==
    /\ req' = [r EXCEPT !.args = h.args]
    /\ env' = h.env
    /\ headers_out' = h.headers
    /\ hook' = [ ran |-> TRUE, outcome |-> outcome, time |-> now, ret |-> h.ret,
                 calls |-> h.calls, leaked |-> h.leaked, validated |-> h.validated,
                 printed |-> h.printed, discarded |-> h.discarded, args |-> r.args ]
    /\ status' = IF h.ret = OK THEN "handler" ELSE "done"
    /\ passed' = IF h.printed = <<>> THEN <<>> ELSE <<DataBucket(h.printed)>>

\* a request of the set R arrives and the fixups hook csrfp_header_parser
\* runs on it
Arrive(R) ==
    /\ status = "idle"
    /\ hist.nreq < MaxRequests
    /\ \E r \in R : \E outcome \in HookOutcomes(r) :
         AfterHook(r, outcome,
                   csrfp_header_parser(r, conf, getRules, table, now, {}, outcome))
    /\ hist' = [hist EXCEPT !.nreq = @ + 1]
    /\ UNCHANGED <<table, counter, now, conf, getRules, rctx, resp, flt, procs>>

Fixups == Arrive(Requests)

\* the content generator sets the response headers and produces the body
\* brigades; csrfp_insert_filter has put the output filter on the request
Handler ==
    /\ status = "handler"
    /\ \E w \in Responses :
         /\ resp' = [w EXCEPT !.hout = <<>>]
         /\ headers_out' = headers_out \o w.hout
    /\ status' = "filter"
    /\ flt' = [flt EXCEPT !.active = TRUE]
    /\ UNCHANGED <<table, counter, now, conf, getRules, req, env, hook, rctx,
                   passed, hist, procs>>

RecordPuts(puts, issued, tbl) ==
    LET new  == { [sessid |-> issued[i].sessid, token |-> issued[i].token,
                   time |-> issued[i].time] :
                     i \in { j \in 1..Len(issued) : issued[j].putrc = 0 } }
        kept == { p \in puts : \A n \in new : n.sessid # p.sessid }
    IN  { p \in kept \cup new : \E i \in 1..Len(tbl) : tbl[i].sessid = p.sessid }

\* setTokenCookie calls generateToken for the token unless the request has
\* a session cookie whose session has a row
Generates(tbl, r) ==
    LET sessid == getCookieToken(r, CSRFP_SESS_TOKEN)
    IN  sessid = NULL \/ csrfp_sql_get_token(tbl, sessid) = NULL

\* the times at which the token values were generated, after the issuances
\* of one filter run on request r with the store tbl
RecordBorn(h, issued, tbl, r) ==
    IF "born" \notin DOMAIN h \/ issued = <<>> \/ ~Generates(tbl, r) THEN h
    ELSE [h EXCEPT !.born = { b \in @ : b.token # issued[1].token }
                            \cup { [token |-> issued[1].token, time |-> issued[1].time] }]

\* the rewrite states in which the filter invocations of the response ended
RecordState(h, state) ==
    IF "states" \in DOMAIN h THEN [h EXCEPT !.states = Append(@, state)] ELSE h

\* what one invocation of the filter draws from outside the request: the
\* outcome of csrfp_sql_init, the two random strings, and whether the
\* uninitialised zErrMsg of csrfp_sql_table_clean is a readable pointer.
\* The store is opened only when the regeneration flag is set.
FilterInputs(e) ==
    IF "regen_csrfptoken" \notin e
    THEN { [outcome |-> "ok", fresh |-> f, badptr |-> FALSE] :
             f \in { [token |-> <<"tokA">>, sessid |-> <<"sidA">>] } }
    ELSE { [outcome |-> "ok", fresh |-> f, badptr |-> FALSE] : f \in FreshPairs }
         \cup { [outcome |-> "open_error", fresh |-> f, badptr |-> p] :
                  f \in { [token |-> <<"tokA">>, sessid |-> <<"sidA">>] },
                  p \in BOOLEAN }
         \cup { [outcome |-> "exec_error", fresh |-> f, badptr |-> p] :
                  f \in { [token |-> <<"tokA">>, sessid |-> <<"sidA">>] },
                  p \in BOOLEAN }

\* the request state after csrfp_out_filter did o on the head brigade
AfterFilter(o) ==
    /\ env' = o.env
    /\ rctx' = o.rctx
    /\ headers_out' = o.hout
    /\ resp' = [resp EXCEPT !.herr = o.herr, !.chunked = o.chunked, !.brigades = Tail(@)]
    /\ table' = o.table
    /\ counter' = o.counter
    /\ passed' = passed \o o.bb
    /\ flt' = [ active |-> ~o.removed /\ ~o.fault,
                runs |-> flt.runs + 1,
                calls |-> flt.calls \o o.calls,
                issued |-> flt.issued \o o.issued,
                fault |-> o.fault,
                leaked |-> flt.leaked \/ o.leaked ]
    /\ status' = IF o.fault \/ Tail(resp.brigades) = <<>> THEN "done" ELSE "filter"
    /\ hist' = RecordState(RecordBorn([hist EXCEPT !.puts = RecordPuts(@, o.issued, o.table),
                                                   !.issuances = @ + Len(o.issued),
                                                   !.reseeds = @ + Reseeds(o.issued)],
                                      o.issued, table, req),
                           o.rctx.state)

\* the next brigade of the response reaches csrfp_out_filter
OutFilter ==
    /\ status = "filter"
    /\ flt.active
    /\ resp.brigades # <<>>
    /\ \E in \in FilterInputs(env) :
         AfterFilter(csrfp_out_filter(
             Head(resp.brigades),
             [ env |-> env, rctx |-> rctx, hout |-> headers_out, herr |-> resp.herr,
               content_type |-> resp.content_type, chunked |-> resp.chunked,
               table |-> table, counter |-> counter ],
             req, conf, getRules, now,
             in.outcome, in.fresh.token, in.fresh.sessid, in.badptr))
    /\ UNCHANGED <<now, conf, getRules, req, hook, procs>>

\* after ap_remove_output_filter the rest of the response bypasses the filter
PassThrough ==
    /\ status = "filter"
    /\ ~flt.active
    /\ resp.brigades # <<>>
    /\ passed' = passed \o Head(resp.brigades)
    /\ resp' = [resp EXCEPT !.brigades = Tail(@)]
    /\ status' = IF Tail(resp.brigades) = <<>> THEN "done" ELSE "filter"
    /\ UNCHANGED <<table, counter, now, conf, getRules, req, env, headers_out,
                   hook, rctx, flt, hist, procs>>

\* the request is over and its pool is destroyed; the store stays
Finish ==
    /\ status = "done"
    /\ status' = "idle"
    /\ req' = NoRequest
    /\ env' = {}
    /\ headers_out' = <<>>
    /\ hook' = NoHook
    /\ rctx' = NoCtx
    /\ resp' = NoResponse
    /\ passed' = <<>>
    /\ flt' = NoFilter
    /\ UNCHANGED <<table, counter, now, conf, getRules, hist, procs>>

Next == Tick \/ Fixups \/ Handler \/ OutFilter \/ PassThrough \/ Finish

Spec == Init /\ [][Next]_vars

----------------------------------------------------------------------------
(* The output filter alone, on one response cut into chunks and brigades   *)

MaxCuts == 2

Body == HtmlText

\* the sets of at most k cut positions inside Body
RECURSIVE CutSets(_)
CutSets(k) ==
    IF k = 0 THEN { {} }
    ELSE CutSets(k - 1) \cup { c \cup {i} : c \in CutSets(k - 1), i \in 1..(Len(Body) - 1) }

EveryByte == 1..(Len(Body) - 1)

SetMin(S) == CHOOSE m \in S : \A n \in S : m <= n

\* the bytes that lie in memory after a chunk ending at hi: a NUL, or the
\* rest of the buffer the chunk was cut from
TailOf(hi, tailKind) ==
    IF tailKind = "rest" THEN SubSeq(Body, hi + 1, Len(Body)) ELSE <<>>

\* Body from position lo + 1 on as brigades of data buckets: a bucket ends
\* at every position of cuts, a brigade at every position of ends; cur is
\* the brigade being filled; the last brigade ends with EOS
RECURSIVE Chunked(_, _, _, _, _)
Chunked(lo, cuts, ends, tailKind, cur) ==
    IF cuts = {}
    THEN << cur \o << Bucket("data", SubSeq(Body, lo + 1, Len(Body)), <<>>), EOS >> >>
    ELSE IF SetMin(cuts) \in ends
    THEN << Append(cur, Bucket("data", SubSeq(Body, lo + 1, SetMin(cuts)),
                               TailOf(SetMin(cuts), tailKind))) >>
         \o Chunked(SetMin(cuts), cuts \ {SetMin(cuts)}, ends, tailKind, <<>>)
    ELSE Chunked(SetMin(cuts), cuts \ {SetMin(cuts)}, ends, tailKind,
                 Append(cur, Bucket("data", SubSeq(Body, lo + 1, SetMin(cuts)),
                                    TailOf(SetMin(cuts), tailKind))))

\* the ways a set of cuts is grouped into brigades
Groupings(cuts) == IF Cardinality(cuts) <= MaxCuts THEN SUBSET cuts ELSE { {}, cuts }

\* a text/html response of the content generator with body Body
HtmlResponse(clen, brigades) == Response(<<"text/html">>, clen, brigades)

\* the request that asked for the response
PageRequests == { Request("GET", UriPage, NoCarrier, k) : k \in { NULL, CookieOf(<<"sidA">>) } }

\* a request that csrfp_header_parser let through without marking it
\* (CSRFProtect off, or action strip): the filter only rewrites
InitRewrite ==
    /\ \E cuts \in CutSets(MaxCuts) \cup {EveryByte} :
         \E ends \in Groupings(cuts), tailKind \in {"nul", "rest"} :
            resp = [HtmlResponse(NULL, Chunked(0, cuts, ends, tailKind, <<>>))
                       EXCEPT !.hout = <<>>]
    /\ req = Request("GET", UriPage, NoCarrier, NULL)
    /\ env = {}
    /\ headers_out = HtmlResponse(NULL, <<>>).hout
    /\ table = <<>>
    /\ hist = [nreq |-> 1, puts |-> {}, issuances |-> 0, reseeds |-> 0]

\* the bodies of the marked requests: Body in one, two and three brigades,
\* and a response that is not html
RegenResponses ==
    { HtmlResponse(clen, Chunked(0, ends, ends, "nul", <<>>)) :
        clen \in { NULL, <<"2", "7">> }, ends \in { {}, {5}, {5, 20} } }
    \cup { Response(<<"image/png">>, NULL,
                    << <<DataBucket(<<"<", "b">>)>>, <<DataBucket(<<"o", "d">>), EOS>> >>) }

\* a request that csrfp_header_parser marked for regeneration, with the
\* store empty or holding the session of an earlier response
InitRegen ==
    /\ \E w \in RegenResponses :
         /\ resp = [w EXCEPT !.hout = <<>>]
         /\ headers_out = << << <<"X-Protected-By">>, <<"CSRFP 0.0.1">> >> >> \o w.hout
    /\ req \in PageRequests
    /\ env = {"regen_csrfptoken", "mod_csrfp_enabled"}
    /\ \E rows \in { <<>>, << [sessid |-> <<"sidA">>, token |-> <<"tokA">>,
                              timestamp |-> 0] >> } :
         /\ table = rows
         /\ hist = [nreq |-> 1,
                    puts |-> { [sessid |-> rows[i].sessid, token |-> rows[i].token,
                                time |-> rows[i].timestamp] : i \in 1..Len(rows) },
                    issuances |-> 0, reseeds |-> 0]

\* responses whose type is declared in r->headers_out, r->err_headers_out
\* or r->content_type, in any combination, or nowhere
ContentTypes == { NULL, <<"image/png">>, <<"text/html">> }
OtherTypes == { <<"text/xhtml">>, <<"TEXT/HTML">>, <<"text/htm">>, <<"text/plain">> }

TypeHeader(type) == IF type = NULL THEN <<>> ELSE << << <<"Content-Type">>, type >> >>

TypedResponse(th, te, tc, clen, brigades) ==
    [ hout |-> TypeHeader(th)
               \o (IF clen = NULL THEN <<>> ELSE << << <<"Content-Length">>, clen >> >>),
      herr |-> TypeHeader(te), content_type |-> tc, chunked |-> FALSE,
      brigades |-> brigades ]

TypedResponses ==
    { TypedResponse(th, te, tc, clen, Chunked(0, ends, ends, "nul", <<>>)) :
        th \in ContentTypes, te \in ContentTypes, tc \in ContentTypes,
        clen \in { NULL, <<"2", "7">> }, ends \in { {}, {5} } }
    \cup { TypedResponse(NULL, NULL, tc, <<"2", "7">>, Chunked(0, {5}, {5}, "nul", <<>>)) :
             tc \in OtherTypes }

\* a response of any declared type, to a request that the hook marked for
\* regeneration or let through unmarked; hist keeps the response as the
\* content generator made it
InitTyped ==
    /\ \E w \in TypedResponses, marked \in BOOLEAN :
         /\ resp = [w EXCEPT !.hout = <<>>]
         /\ env = IF marked THEN {"regen_csrfptoken", "mod_csrfp_enabled"} ELSE {}
         /\ headers_out = (IF marked THEN << << <<"X-Protected-By">>, <<"CSRFP 0.0.1">> >> >>
                           ELSE <<>>) \o w.hout
         /\ hist = [nreq |-> 1, puts |-> {}, issuances |-> 0, reseeds |-> 0,
                    original |-> w]
    /\ req = Request("GET", UriPage, NoCarrier, NULL)
    /\ table = <<>>

InitFilter ==
    /\ InitRewrite \/ InitRegen \/ InitTyped
    /\ procs = NoProcs
    /\ counter = <<>>
    /\ now = 0
    /\ conf = csrfp_srv_config_create
    /\ getRules \in RuleLists
    /\ status = "filter"
    /\ hook = NoHook
    /\ rctx = NoCtx
    /\ passed = <<>>
    /\ flt = [NoFilter EXCEPT !.active = TRUE]

NextFilter == OutFilter \/ PassThrough

SpecFilter == InitFilter /\ [][NextFilter]_vars

----------------------------------------------------------------------------
(* Token issuances one after another                                       *)

MaxIssuances == 20001

\* the store as csrfp_sql_init leaves it on first use: both tables empty
InitCounter ==
    /\ table = <<>>
    /\ counter = <<>>
    /\ now = 0
    /\ conf = csrfp_srv_config_create
    /\ getRules = <<>>
    /\ status = "idle"
    /\ req = NoRequest
    /\ env = {}
    /\ headers_out = <<>>
    /\ hook = NoHook
    /\ rctx = NoCtx
    /\ resp = NoResponse
    /\ passed = <<>>
    /\ flt = NoFilter
    /\ hist = [nreq |-> 0, puts |-> {}, issuances |-> 0, reseeds |-> 0]
    /\ procs = NoProcs

\* the regeneration block of csrfp_out_filter run to its end for one
\* request before the next one starts: csrfp_sql_init, setTokenCookie,
\* csrfp_sql_table_clean, sqlite3_close.  The headers go with the request
\* and are not kept.  (In the reseed block the test of the unset FILE
\* pointer only decides whether a rand-reseed-error header is added.)
Issue ==
    /\ status = "idle"
    /\ hist.issuances < MaxIssuances
    /\ \E r \in PageRequests :
         LET o == RegenBlock(table, counter, now, conf, r, <<>>, "ok",
                             <<"tokA">>, <<"sidA">>, FALSE)
         IN  /\ table' = o.table
             /\ counter' = o.counter
             /\ hist' = [hist EXCEPT !.nreq = @ + 1,
                                     !.issuances = @ + Len(o.issued),
                                     !.reseeds = @ + Reseeds(o.issued)]
    /\ UNCHANGED <<now, conf, getRules, status, req, env, headers_out, hook,
                   rctx, resp, passed, flt, procs>>

SpecCounter == InitCounter /\ [][Issue]_vars

----------------------------------------------------------------------------
(* Concurrent token issuances: httpd children of the prefork MPM, each     *)
(* with its own connection to the one database file.  SQLite serialises    *)
(* single statements; a child runs setTokenCookie one statement at a time. *)

MaxChildren == 2
MaxStarts == 3

Children == 1..MaxChildren

SQLITE_CONSTRAINT == 19

\* a child that is not inside setTokenCookie
Resting == [pc |-> "rest", sessid |-> NULL, token |-> NULL, shouldUpdate |-> 0,
            counter |-> 1, rc |-> 0]

\* what the two generateToken calls give child p
FreshOf(p) == IF p % 2 = 1 THEN [token |-> <<"tokA">>, sessid |-> <<"sidA">>]
              ELSE [token |-> <<"tokB">>, sessid |-> <<"sidB">>]

\* an INSERT into a table without the key
InsertSession_nokey(tbl, row) == [rc |-> 0, table |-> Append(tbl, row)]

\* INSERT INTO CSRFP: sessid is the PRIMARY KEY of the table, so a second
\* row for a session id is refused with SQLITE_CONSTRAINT
InsertSession(tbl, row) ==
    IF \E i \in 1..Len(tbl) : tbl[i].sessid = row.sessid
    THEN [rc |-> SQLITE_CONSTRAINT, table |-> tbl]
    ELSE [rc |-> 0, table |-> Append(tbl, row)]

\* the store as new, or as RESEED_RAND_AT - 2 issuances one after another
\* for the session sidA leave it
InitConcurrent ==
    /\ counter \in { <<>>, <<RESEED_RAND_AT - 2>> }
    /\ hist = [nreq |-> 0, puts |-> {},
               issuances |-> IF counter = <<>> THEN 0 ELSE counter[1],
               reseeds |-> 0]
    /\ table = IF counter = <<>> THEN <<>>
               ELSE << [sessid |-> <<"sidA">>, token |-> <<"tokA">>, timestamp |-> 0] >>
    /\ now = 0
    /\ conf = csrfp_srv_config_create
    /\ getRules = <<>>
    /\ status = "idle"
    /\ req = NoRequest
    /\ env = {}
    /\ headers_out = <<>>
    /\ hook = NoHook
    /\ rctx = NoCtx
    /\ resp = NoResponse
    /\ passed = <<>>
    /\ flt = NoFilter
    /\ procs = [p \in Children |-> Resting]

\* the variables of the single request of the sequential server
OneRequest == <<now, conf, getRules, status, req, env, headers_out, hook, rctx,
                resp, passed, flt>>

\* setTokenCookie up to the two Set-Cookie headers: the session id of the
\* cookie or a new one, its stored token (csrfp_sql_get_token) or a new one
Enter(p) ==
    /\ procs[p].pc = "rest"
    /\ hist.nreq < MaxStarts
    /\ \E r \in PageRequests :
         LET cookieSess == getCookieToken(r, CSRFP_SESS_TOKEN)
             sessid == IF cookieSess = NULL THEN FreshOf(p).sessid ELSE cookieSess
             token  == IF cookieSess = NULL THEN FreshOf(p).token
                       ELSE TokenToSend(csrfp_sql_get_token(table, cookieSess),
                                        FreshOf(p).token)
         IN  procs' = [procs EXCEPT ![p] = [Resting EXCEPT !.pc = "addn_select",
                                              !.sessid = sessid, !.token = token]]
    /\ hist' = [hist EXCEPT !.nreq = @ + 1]
    /\ UNCHANGED <<table, counter>>
    /\ UNCHANGED OneRequest

\* csrfp_sql_addn: SELECT sessid FROM CSRFP WHERE sessid = ...
AddnSelect(p) ==
    /\ procs[p].pc = "addn_select"
    /\ procs' = [procs EXCEPT ![p].pc = "addn_write",
                   ![p].shouldUpdate =
                       IF \E i \in 1..Len(table) : table[i].sessid = procs[p].sessid
                       THEN 1 ELSE 0]
    /\ UNCHANGED <<table, counter, hist>>
    /\ UNCHANGED OneRequest

\* csrfp_sql_addn: the INSERT or the UPDATE chosen by shouldUpdate
AddnWrite(p) ==
    /\ procs[p].pc = "addn_write"
    /\ LET me  == procs[p]
           put == IF me.shouldUpdate = 0
                  THEN InsertSession(table, [sessid |-> me.sessid, token |-> me.token,
                                             timestamp |-> now])
                  ELSE [rc |-> 0,
                        table |-> [i \in 1..Len(table) |->
                                     IF table[i].sessid = me.sessid
                                     THEN [table[i] EXCEPT !.token = me.token,
                                                           !.timestamp = now]
                                     ELSE table[i]]]
       IN  /\ table' = put.table
           /\ procs' = [procs EXCEPT ![p].pc = "counter_select", ![p].rc = put.rc]
    /\ UNCHANGED <<counter, hist>>
    /\ UNCHANGED OneRequest

\* csrfp_sql_update_counter: SELECT counter FROM CSRFP_COUNTER, first row
CounterSelect(p) ==
    /\ procs[p].pc = "counter_select"
    /\ procs' = [procs EXCEPT ![p].pc = "counter_write",
                   ![p].shouldUpdate = IF counter # <<>> THEN 1 ELSE 0,
                   ![p].counter = IF counter # <<>> THEN counter[1] ELSE 1]
    /\ UNCHANGED <<table, counter, hist>>
    /\ UNCHANGED OneRequest

\* csrfp_sql_update_counter: UPDATE ... SET counter = counter + 1 and
\* counter++, or INSERT ... VALUES (1); then the test of setTokenCookie
CounterWrite(p) ==
    /\ procs[p].pc = "counter_write"
    /\ LET me  == procs[p]
           ret == IF me.shouldUpdate # 0 THEN me.counter + 1 ELSE me.counter
       IN  /\ counter' = IF me.shouldUpdate # 0
                         THEN [i \in 1..Len(counter) |-> counter[i] + 1]
                         ELSE Append(counter, 1)
           /\ procs' = [procs EXCEPT ![p].counter = ret,
                          ![p].pc = IF ret = RESEED_RAND_AT THEN "reseed" ELSE "sweep"]
    /\ hist' = [hist EXCEPT !.issuances = @ + 1]
    /\ UNCHANGED table
    /\ UNCHANGED OneRequest

\* setTokenCookie: RAND_seed, then UPDATE CSRFP_COUNTER SET counter = 0
ReseedAndReset(p) ==
    /\ procs[p].pc = "reseed"
    /\ counter' = [i \in 1..Len(counter) |-> 0]
    /\ procs' = [procs EXCEPT ![p].pc = "sweep"]
    /\ hist' = [hist EXCEPT !.reseeds = @ + 1]
    /\ UNCHANGED table
    /\ UNCHANGED OneRequest

\* back in csrfp_out_filter: csrfp_sql_table_clean and sqlite3_close
SweepAndClose(p) ==
    /\ procs[p].pc = "sweep"
    /\ table' = csrfp_sql_table_clean(table, now, DB_OPEN)
    /\ procs' = [procs EXCEPT ![p] = [Resting EXCEPT !.rc = procs[p].rc]]
    /\ UNCHANGED <<counter, hist>>
    /\ UNCHANGED OneRequest

NextConcurrent ==
    \E p \in Children :
        \/ Enter(p)
        \/ AddnSelect(p)
        \/ AddnWrite(p)
        \/ CounterSelect(p)
        \/ CounterWrite(p)
        \/ ReseedAndReset(p)
        \/ SweepAndClose(p)

SpecConcurrent == InitConcurrent /\ [][NextConcurrent]_vars

----------------------------------------------------------------------------
(* The directives of httpd.conf, then requests that meet the fixups hook   *)

MaxDirectives == 3

UriTarget == <<"/", "e">>
CustomMessage == <<"n", "o">>

\* directive lines: [name, arg]
Line(name, arg) == [name |-> name, arg |-> arg]

DirectiveLines ==
    { Line("csrfpEnable", a) : a \in { <<"off">>, <<"on">> } }
    \cup { Line("csrfpAction", <<a>>) : a \in ActionNames \cup {"STRIP", "log"} }
    \cup { Line("errorRedirectionUri", a) : a \in { UriTarget, <<>> } }
    \cup { Line("errorCustomMessage", a) : a \in { CustomMessage, <<>> } }
    \cup { Line("tokenLength", a) :
             a \in { <<"8">>, <<"1", "2">>, <<"2", "0">>, <<"x">>, <<"2", "0", "x">>,
                     <<"-", "2", "0">>, <<>> } }
    \cup { Line("verifyGetFor", UriRule) }

\* the handler of csrfp_directives that the line's name selects
RunDirective(c, d) ==
    CASE d.name = "csrfpEnable"         -> csrfp_enable_cmd(c, d.arg)
      [] d.name = "csrfpAction"         -> csrfp_action_cmd(c, d.arg)
      [] d.name = "errorRedirectionUri" -> csrfp_errorRedirectionUri_cmd(c, d.arg)
      [] d.name = "errorCustomMessage"  -> csrfp_errorCustomMessage_cmd(c, d.arg)
      [] d.name = "tokenLength"         -> csrfp_tokenLength_cmd(c, d.arg)
      [] OTHER                          -> c

\* requests whose final path segment holds an extension of the ignore
\* pattern at its end, in its middle, or not at all
UriScript == <<"/", "j", "s", "x">>
UriSheet == <<"/", "a", ".", "c", "s", "v">>
UriSheetLike == <<"/", "c", "s", "v", "s">>
PathRequests ==
    { Request("POST", u, NoCarrier, NULL) : u \in { UriScript, UriSheet, UriSheetLike, UriAsset } }
    \cup { Request("GET", UriRule, InQuery(<<"tokB">>), NULL) }

\* csrfp_srv_config_create has run and no directive has been read
InitDirectives ==
    /\ conf = csrfp_srv_config_create
    /\ getRules = <<>>
    /\ status = "config"
    /\ hist = [nreq |-> 0, puts |-> {}, issuances |-> 0, reseeds |-> 0,
               directives |-> <<>>]
    /\ table = <<>>
    /\ counter = <<>>
    /\ now = 0
    /\ req = NoRequest
    /\ env = {}
    /\ headers_out = <<>>
    /\ hook = NoHook
    /\ rctx = NoCtx
    /\ resp = NoResponse
    /\ passed = <<>>
    /\ flt = NoFilter
    /\ procs = NoProcs

\* httpd reads one more directive line of the module
Directive ==
    /\ status = "config"
    /\ Len(hist.directives) < MaxDirectives
    /\ \E d \in DirectiveLines :
         /\ conf' = RunDirective(conf, d)
         /\ getRules' = IF d.name = "verifyGetFor"
                        THEN csrfp_verifyGetFor_cmd(getRules, d.arg) ELSE getRules
         /\ hist' = [hist EXCEPT !.directives = Append(@, d)]
    /\ UNCHANGED <<table, counter, now, status, req, env, headers_out, hook, rctx,
                   resp, passed, flt, procs>>

\* the configuration is read and the server starts to take requests
Start ==
    /\ status = "config"
    /\ status' = "idle"
    /\ hist' = [hist EXCEPT !.directives = <<>>]
    /\ UNCHANGED <<table, counter, now, conf, getRules, req, env, headers_out, hook,
                   rctx, resp, passed, flt, procs>>

FixupsAnyPath == Arrive(Requests \cup PathRequests)

NextDirectives == Directive \/ Start \/ FixupsAnyPath \/ Finish

SpecDirectives == InitDirectives /\ [][NextDirectives]_vars

----------------------------------------------------------------------------
(* The server with two sessions already in the store                       *)

\* a Cookie header with two cookies: one of another name, whose name ends
\* with the session cookie's name, and then the session cookie
TwoCookies(other, sid) == CookieDecoy(other) \o <<";", " ">> \o CookieOf(sid)

\* requests that present a token of one stored session with the session
\* cookie of the other
CrossRequests ==
    { Request("POST", UriPage, InHeader(<<"tokA">>), CookieOf(<<"sidB">>)),
      Request("POST", UriPage, InHeader(<<"tokB">>), CookieOf(<<"sidA">>)),
      Request("POST", UriPage, InHeader(<<"tokA">>), TwoCookies(<<"sidA">>, <<"sidB">>)) }

\* the store after setTokenCookie ran at time 0 for two requests without a
\* session cookie; born holds, for each token value, when generateToken
\* last gave it
InitStored ==
    /\ table = << [sessid |-> <<"sidA">>, token |-> <<"tokA">>, timestamp |-> 0],
                  [sessid |-> <<"sidB">>, token |-> <<"tokB">>, timestamp |-> 0] >>
    /\ counter = <<2>>
    /\ now = 0
    /\ conf \in Configs
    /\ getRules \in RuleLists
    /\ status = "idle"
    /\ req = NoRequest
    /\ env = {}
    /\ headers_out = <<>>
    /\ hook = NoHook
    /\ rctx = NoCtx
    /\ resp = NoResponse
    /\ passed = <<>>
    /\ flt = NoFilter
    /\ hist = [ nreq |-> 0,
                puts |-> { [sessid |-> <<"sidA">>, token |-> <<"tokA">>, time |-> 0],
                           [sessid |-> <<"sidB">>, token |-> <<"tokB">>, time |-> 0] },
                issuances |-> 2, reseeds |-> 0,
                born |-> { [token |-> <<"tokA">>, time |-> 0],
                           [token |-> <<"tokB">>, time |-> 0] } ]
    /\ procs = NoProcs

\* requests of the methods the hook has no branch for, with and without a
\* token (one that no row holds for the session sidA) and a session cookie,
\* for a page, for the url of the GET rule and for an ignored path
OtherMethods == {"PUT", "DELETE"}

OtherMethodRequests ==
    { Request(m, u, t, k) : m \in OtherMethods, u \in {UriPage, UriRule, UriAsset},
                            t \in {NoCarrier, InHeader(<<"tokB">>)},
                            k \in {NULL, CookieOf(<<"sidA">>)} }

FixupsStored == Arrive(Requests \cup CrossRequests \cup OtherMethodRequests)

NextStored == Tick \/ FixupsStored \/ Handler \/ OutFilter \/ PassThrough \/ Finish

SpecStored == InitStored /\ [][NextStored]_vars

----------------------------------------------------------------------------
(* The marker search on pages of several shapes                            *)

MaxSplits == 2

\* a page whose markers lie five bytes or more from the start and seven or more
\* from the end of the body
PageWhole ==
    <<"1", "2", "3", "4", "5", "<", "b", "o", "d", "y", ">", "h", "<", "/", "b", "o",
      "d", "y", ">", "1", "2", "3", "4", "5", "6", "7">>

\* a page with capital letters in the markers and an attribute in the body tag
PageAttrs ==
    <<"1", "2", "3", "4", "5", "<", "B", "O", "D", "Y", " ", "a", ">", "h", "<", "/",
      "B", "o", "D", "y", ">", "1", "2", "3", "4", "5", "6", "7">>

\* a page with </bodyx> in place of </body>
PageBodyx ==
    <<"1", "2", "3", "4", "5", "<", "b", "o", "d", "y", ">", "h", "<", "/", "b", "o",
      "d", "y", "x", ">", "1", "2", "3", "4", "5", "6", "7">>

Pages == { PageWhole, PageAttrs, PageBodyx }

\* the sets of at most k positions inside a body of n bytes
RECURSIVE SplitSets(_, _)
SplitSets(n, k) ==
    IF k = 0 THEN { {} }
    ELSE SplitSets(n, k - 1) \cup { c \cup {i} : c \in SplitSets(n, k - 1), i \in 1..(n - 1) }

\* what may lie before the last chunk of a brigade of several chunks:
\* nothing, a data bucket of length 0, or a metadata bucket
GapBuckets == { <<>>, <<DataBucket(<<>>)>>, <<FLUSH>> }

\* the bytes in memory after a chunk: the chunks of one brigade may be cut
\* from one buffer, so that the rest of the body follows the chunk
TailKinds(cuts, ends) == IF cuts # {} /\ ends = {} THEN {"nul", "rest"} ELSE {"nul"}

\* body from position lo + 1 on as brigades of data buckets: a bucket ends
\* at every position of cuts, a brigade at every position of ends, the
\* buckets of gap come before the last chunk; cur is the brigade being
\* filled; the last brigade ends with EOS
RECURSIVE Pieces(_, _, _, _, _, _, _)
Pieces(body, lo, cuts, ends, tailKind, gap, cur) ==
    IF cuts = {}
    THEN << cur \o gap \o << Bucket("data", SubSeq(body, lo + 1, Len(body)), <<>>), EOS >> >>
    ELSE IF SetMin(cuts) \in ends
    THEN << Append(cur, Bucket("data", SubSeq(body, lo + 1, SetMin(cuts)),
                               IF tailKind = "rest"
                               THEN SubSeq(body, SetMin(cuts) + 1, Len(body)) ELSE <<>>)) >>
         \o Pieces(body, SetMin(cuts), cuts \ {SetMin(cuts)}, ends, tailKind, gap, <<>>)
    ELSE Pieces(body, SetMin(cuts), cuts \ {SetMin(cuts)}, ends, tailKind, gap,
                Append(cur, Bucket("data", SubSeq(body, lo + 1, SetMin(cuts)),
                                   IF tailKind = "rest"
                                   THEN SubSeq(body, SetMin(cuts) + 1, Len(body))
                                   ELSE <<>>)))

\* a text/html page with its Content-Length, cut into chunks and brigades,
\* for a request that csrfp_header_parser let through unmarked; hist keeps
\* the response as the content generator made it, the body it carries, and
\* the state each filter invocation ended in
InitScan ==
    /\ \E body \in Pages :
         \E cuts \in SplitSets(Len(body), MaxSplits) :
           \E ends \in SUBSET cuts :
            \E tailKind \in TailKinds(cuts, ends),
               gap \in (IF cuts # {} /\ ends = {} THEN GapBuckets ELSE { <<>> }) :
             LET w == HtmlResponse(OffToStr(Len(body)),
                                   Pieces(body, 0, cuts, ends, tailKind, gap, <<>>))
             IN  /\ resp = [w EXCEPT !.hout = <<>>]
                 /\ headers_out = w.hout
                 /\ hist = [nreq |-> 1, puts |-> {}, issuances |-> 0, reseeds |-> 0,
                            original |-> w, body |-> body, states |-> <<>>]
    /\ req = Request("GET", UriPage, NoCarrier, NULL)
    /\ env = {}
    /\ table = <<>>
    /\ procs = NoProcs
    /\ counter = <<>>
    /\ now = 0
    /\ conf = csrfp_srv_config_create
    /\ getRules \in RuleLists
    /\ status = "filter"
    /\ hook = NoHook
    /\ rctx = NoCtx
    /\ passed = <<>>
    /\ flt = [NoFilter EXCEPT !.active = TRUE]

\* every page is text/html, so the filter stays on the request for the whole
\* response
SpecScan == InitScan /\ [][OutFilter]_vars

----------------------------------------------------------------------------
(* The server with csrfpEnable off                                         *)

\* the configurations after the directive csrfpEnable off
InitDisabled ==
    /\ conf \in { csrfp_enable_cmd(c, <<"off">>) : c \in Configs }
    /\ table = <<>>
    /\ counter = <<>>
    /\ now = 0
    /\ getRules \in RuleLists
    /\ status = "idle"
    /\ req = NoRequest
    /\ env = {}
    /\ headers_out = <<>>
    /\ hook = NoHook
    /\ rctx = NoCtx
    /\ resp = NoResponse
    /\ passed = <<>>
    /\ flt = NoFilter
    /\ hist = [nreq |-> 0, puts |-> {}, issuances |-> 0, reseeds |-> 0]
    /\ procs = NoProcs

SpecDisabled == InitDisabled /\ [][Next]_vars

----------------------------------------------------------------------------
(* generateToken on the bytes RAND_pseudo_bytes delivers                   *)

MaxTokenLength == 2

\* the values of one unsigned char
Bytes == 0..255

\* the string literal of generateToken: a..z, A..Z, 1..9, 0
charset ==
    <<"a", "b", "c", "d", "e", "f", "g", "h", "i", "j", "k", "l", "m",
      "n", "o", "p", "q", "r", "s", "t", "u", "v", "w", "x", "y", "z",
      "A", "B", "C", "D", "E", "F", "G", "H", "I", "J", "K", "L", "M",
      "N", "O", "P", "Q", "R", "S", "T", "U", "V", "W", "X", "Y", "Z",
      "1", "2", "3", "4", "5", "6", "7", "8", "9", "0">>

\* generateToken(r, length) when RAND_pseudo_bytes filled buf:
\* token[i] = charset[buf[i] % (len - 1)] with len = strlen(charset), and
\* the terminator at token[length].  Sequences count from 1.
generateToken(buf, length) ==
    [i \in 1..length |-> charset[(buf[i] % (strlen(charset) - 1)) + 1]]

\* a call with a length and the random bytes it will draw
InitToken ==
    /\ \E length \in 1..MaxTokenLength : \E buf \in [1..length -> Bytes] :
         hist = [nreq |-> 0, puts |-> {}, issuances |-> 0, reseeds |-> 0,
                 length |-> length, buf |-> buf, token |-> NULL]
    /\ table = <<>>
    /\ counter = <<>>
    /\ now = 0
    /\ conf = csrfp_srv_config_create
    /\ getRules = <<>>
    /\ status = "idle"
    /\ req = NoRequest
    /\ env = {}
    /\ headers_out = <<>>
    /\ hook = NoHook
    /\ rctx = NoCtx
    /\ resp = NoResponse
    /\ passed = <<>>
    /\ flt = NoFilter
    /\ procs = NoProcs

\* the call returns
CallGenerate ==
    /\ status = "idle"
    /\ hist.token = NULL
    /\ hist' = [hist EXCEPT !.token = generateToken(hist.buf, hist.length)]
    /\ status' = "done"
    /\ UNCHANGED <<table, counter, now, conf, getRules, req, env, headers_out, hook,
                   rctx, resp, passed, flt, procs>>

SpecToken == InitToken /\ [][CallGenerate]_vars

----------------------------------------------------------------------------
(* Properties                                                              *)

\* the bytes of a brigade in order
RECURSIVE Flatten(_)
Flatten(bb) == IF bb = <<>> THEN <<>> ELSE Head(bb).data \o Flatten(Tail(bb))

\* position in text of the last element of the first occurrence of pat at
\* or after position from, 0 if there is none
FirstEnd(text, pat, from) ==
    IF \E i \in from..(Len(text) - Len(pat) + 1) : SubSeq(text, i, i + Len(pat) - 1) = pat
    THEN (CHOOSE i \in from..(Len(text) - Len(pat) + 1) :
             /\ SubSeq(text, i, i + Len(pat) - 1) = pat
             /\ \A j \in from..(i - 1) : SubSeq(text, j, j + Len(pat) - 1) # pat)
         + Len(pat) - 1
    ELSE 0

\* text with the no-script block after the first '>' that follows "<body"
\* and the script block after the first "</body>"
Rewritten(text, noscript, script) ==
    SubSeq(text, 1, FirstEnd(text, <<">">>, FirstEnd(text, BodyOpen, 1)))
    \o noscript
    \o SubSeq(text, FirstEnd(text, <<">">>, FirstEnd(text, BodyOpen, 1)) + 1,
              FirstEnd(text, BodyClose, 1))
    \o script
    \o SubSeq(text, FirstEnd(text, BodyClose, 1) + 1, Len(text))

\* C1: for an HTML response with one <body ...> tag and one </body>, however
\* the body is cut into chunks and brigades, the filter's output is the
\* body with the no-script block right after the '>' of <body> and the
\* script block right after </body>, and nothing else changed.
C1_RewriteRoundTrip ==
    (status = "done" /\ IsHtmlType(resp.content_type))
    => /\ ~flt.fault
       /\ Flatten(passed) = Rewritten(Body, csrfp_get_rctx(conf, getRules).noscript,
                                      csrfp_get_rctx(conf, getRules).script)

\* the value of the cookie named exactly CSRFPSESSID in the Cookie header
\* (one cookie per header in Requests), NULL when there is no such cookie
SessionCookie(r) ==
    LET cookie == apr_table_get(r.headers_in, <<"Cookie">>)
    IN  IF cookie = NULL THEN NULL
        ELSE IF Len(cookie) >= 3 /\ cookie[1] = CSRFP_SESS_TOKEN[1] /\ cookie[2] = "="
        THEN IF IndexOf(cookie, ";") = 0 THEN Drop(cookie, 2)
             ELSE SubSeq(cookie, 3, IndexOf(cookie, ";") - 1)
        ELSE NULL

\* the request as it reached the hook (failedValidationAction may clear args)
Arrived == [req EXCEPT !.args = hook.args]

\* the hook has run on a request of this method with the store open, and
\* the filter has not touched the store yet
HookDone(method) ==
    hook.ran /\ hook.outcome = "ok" /\ flt.runs = 0 /\ req.method = method

HookLetThrough == "regen_csrfptoken" \in env

\* C2: every POST (module enabled, path not ignored, store available) is
\* validated, and the hook lets it through only if the supplied token is
\* the token stored for the session id of its session cookie and that row
\* has not expired; otherwise the failure action is taken.
C2_PostPassesOnlyOnStoredToken ==
    HookDone("POST")
    => /\ hook.validated
       /\ HookLetThrough
          => \E i \in 1..Len(table) :
                /\ table[i].sessid = SessionCookie(Arrived)
                /\ table[i].token = TokenValue(Arrived, conf)
                /\ now <= table[i].timestamp + TOKEN_EXPIRY_MAXTIME
       /\ ~HookLetThrough => hook.ret = failedValidationAction(Arrived, conf).ret

\* C3: a (session id, token) pair written by csrfp_sql_addn at time t and
\* not overwritten or swept since is matched by csrfp_sql_match (result 0)
\* at every time now <= t + TOKEN_EXPIRY_MAXTIME.
C3_PutThenMatchValid ==
    \A p \in hist.puts :
        now <= p.time + TOKEN_EXPIRY_MAXTIME
        => csrfp_sql_match(table, now, p.sessid, p.token) = 0

\* a POST carrying a pair put exactly TOKEN_EXPIRY_MAXTIME ago was let through
C3_MatchedAtWindowEnd ==
    /\ HookDone("POST")
    /\ HookLetThrough
    /\ \E p \in hist.puts :
          /\ now = p.time + TOKEN_EXPIRY_MAXTIME
          /\ p.sessid = SessionCookie(Arrived)
          /\ p.token = TokenValue(Arrived, conf)

Expired(row) == now > row.timestamp + TOKEN_EXPIRY_MAXTIME

C5_NoSessionCookieFails ==
    (hook.ran /\ hook.validated /\ flt.runs = 0 /\ SessionCookie(Arrived) = NULL)
    => /\ ~HookLetThrough
       /\ conf.action = "forbidden" => hook.ret = HTTP_FORBIDDEN

\* C6: a GET (path not ignored, store available) is validated exactly when
\* its URL under http:// or https:// matches a configured rule; a matching
\* GET without a token gets the failure action and is not marked for
\* regeneration; a GET that matches no rule is let through.
C6_GetValidatedIffRuleMatches ==
    (HookDone("GET") /\ needvalidation(Arrived, {}).ret = 1)
    => /\ hook.validated <=> MatchingRules(getRules, Arrived) # {}
       /\ (MatchingRules(getRules, Arrived) # {} /\ TokenValue(Arrived, conf) = NULL)
          => /\ ~HookLetThrough
             /\ hook.ret = failedValidationAction(Arrived, conf).ret
       /\ MatchingRules(getRules, Arrived) = {}
          => /\ HookLetThrough
             /\ hook.ret = OK

\* a GET that matches the rule and carries no token was answered 403
C6_RuleGetWithoutTokenRefused ==
    /\ HookDone("GET")
    /\ MatchingRules(getRules, Arrived) # {}
    /\ TokenValue(Arrived, conf) = NULL
    /\ hook.ret = HTTP_FORBIDDEN
    /\ ~HookLetThrough

\* C7: when csrfp_sql_init fails in the hook, whatever the method and
\* whether or not the request would have been validated, the hook returns
\* DONE: the request ends with no body and without the regeneration flag.
C7_StoreFailureEndsRequest ==
    (hook.ran /\ hook.outcome # "ok")
    => /\ hook.ret = DONE
       /\ status = "done"
       /\ passed = <<>>
       /\ flt.runs = 0
       /\ ~HookLetThrough
       /\ ~hook.validated

\* the store failed on a GET that no rule matches, and the request ended
C7_StoreFailureOnPlainGet ==
    /\ hook.ran
    /\ hook.outcome = "exec_error"
    /\ req.method = "GET"
    /\ MatchingRules(getRules, Arrived) = {}
    /\ hook.ret = DONE
    /\ status = "done"

Count(calls, op) == Cardinality({ i \in 1..Len(calls) : calls[i].op = op })

SetCookies(h) == Cardinality({ i \in 1..Len(h) : h[i][1] = <<"Set-Cookie">> })

\* csrfp_sql_init gave NULL in a run of the filter
FilterOpenFailed ==
    \E i \in 1..Len(flt.calls) : flt.calls[i] = StoreCall("open", DB_NULL)

\* C8: when the store cannot be opened in the filter's regeneration step,
\* the body is still forwarded, no Set-Cookie header is added, and nothing
\* but the failed open is done with the NULL handle.
C8_FilterStoreFailureIsQuiet ==
    FilterOpenFailed
    => /\ ~flt.fault
       /\ SetCookies(headers_out) = 0
       /\ status = "done" => passed # <<>>
       /\ \A i \in 1..Len(flt.calls) :
             flt.calls[i].db = DB_NULL => flt.calls[i].op = "open"

\* the token most recently issued by setTokenCookie in the next state
Issued == flt'.issued[Len(flt'.issued)]

\* setTokenCookie has run in this step
Issuing == Len(flt'.issued) = Len(flt.issued) + 1

C10_IssuedOncePerResponse ==
    (/\ status = "done"
     /\ HookLetThrough
     /\ ~flt.fault
     /\ ~FilterOpenFailed)
    => /\ Len(flt.issued) = 1
       /\ SetCookies(headers_out) = 2
       /\ Count(flt.calls, "put") = 1
       /\ Count(flt.calls, "counter") = 1
       /\ Count(flt.calls, "sweep") = 1


\* C11: with issuances executed one after another from an empty counter
\* table, the stored counter is the number of issuances since the last
\* reset (the issuance that brings it to RESEED_RAND_AT leaves 0), and the
\* reseed block has run once for every full RESEED_RAND_AT issuances
C11_CounterCountsSinceReset ==
    /\ hist.issuances = 0 => counter = <<>>
    /\ hist.issuances > 0 => counter = << hist.issuances % RESEED_RAND_AT >>
    /\ hist.reseeds = hist.issuances \div RESEED_RAND_AT

\* the issuance number RESEED_RAND_AT has reset the counter and reseeded
C11_ResetAtThreshold ==
    /\ hist.issuances = RESEED_RAND_AT
    /\ counter = <<0>>
    /\ hist.reseeds = 1


\* no child is inside setTokenCookie
Quiet == \A p \in Children : procs[p].pc = "rest"

\* C12: under any interleaving of concurrent issuances the stored counter
\* never exceeds RESEED_RAND_AT, and once the issuances begun are finished
\* the counter has been reset and the generator reseeded once for every
\* full RESEED_RAND_AT issuances
C12_CounterIncrementAtomic ==
    /\ \A i \in 1..Len(counter) : counter[i] <= RESEED_RAND_AT
    /\ Quiet => hist.reseeds = hist.issuances \div RESEED_RAND_AT


\* C13: in every store state reached by concurrent issuances, with the
\* statements of csrfp_sql_addn for one session id interleaved, the table
\* CSRFP holds at most one row per session id
C13_OneRowPerSession ==
    \A i, j \in 1..Len(table) : table[i].sessid = table[j].sessid => i = j

\* two children found no row for the same session id, both went on to
\* INSERT, and the second INSERT was refused: the session has one row
C13_SecondInsertRefused ==
    \E p \in Children :
        /\ procs[p].pc = "counter_select"
        /\ procs[p].shouldUpdate = 0
        /\ procs[p].rc = SQLITE_CONSTRAINT
        /\ Cardinality({ i \in 1..Len(table) : table[i].sessid = procs[p].sessid }) = 1


\* the table CSRFP after the csrfp_sql_addn of the issuance of this step,
\* which is what its csrfp_sql_table_clean works on
BeforeSweep ==
    IF Issued.putrc = 0 THEN csrfp_sql_addn(table, now, Issued.sessid, Issued.token).table
    ELSE table

\* C14: the sweep at the end of an issuance deletes exactly the rows with
\* timestamp + TOKEN_EXPIRY_MAXTIME < now: every other row stays as it was
\* and in order, no row that csrfp_sql_match accepts at this instant is
\* deleted, and the counter is what the issuance made it
C14_SweepDeletesExactlyExpired ==
    [][ Issuing =>
          LET Live(row) == ~(row.timestamp + TOKEN_EXPIRY_MAXTIME < now)
          IN  /\ table' = SelectSeq(BeforeSweep, Live)
              /\ \A i \in 1..Len(BeforeSweep) :
                    csrfp_sql_match(BeforeSweep, now, BeforeSweep[i].sessid,
                                    BeforeSweep[i].token) = 0
                    => \E j \in 1..Len(table') : table'[j] = BeforeSweep[i]
              /\ counter' = csrfp_sql_update_counter(counter).counter ]_vars

\* an issuance whose sweep deleted the expired row of an earlier session
\* and kept the row just written
C14_ExpiredRowSwept ==
    /\ flt.issued # <<>>
    /\ flt.issued[Len(flt.issued)].swept = 1
    /\ \E i \in 1..Len(table) :
          /\ table[i].sessid = flt.issued[Len(flt.issued)].sessid
          /\ csrfp_sql_match(table, now, table[i].sessid, table[i].token) = 0


\* the hook validated the request of this state and the validation failed
ValidationFailed ==
    hook.ran /\ hook.outcome = "ok" /\ hook.validated /\ ~HookLetThrough

\* the name given to csrfpAction in the last directive read, if that was one
LastActionArg ==
    IF hist.directives # <<>> /\ hist.directives[Len(hist.directives)].name = "csrfpAction"
    THEN hist.directives[Len(hist.directives)].arg
    ELSE NULL

\* C15: after a failed validation the configured action alone decides the
\* outcome.  forbidden, which is also what a csrfpAction directive with an
\* unknown name configures, answers 403; internal_server_error answers
\* 500; message writes the configured message (inside <h2>) as the body and
\* returns DONE.  In all three the request ends at the hook.
C15_ActionDecidesOutcome ==
    /\ (status = "config" /\ LastActionArg # NULL
            /\ \A a \in ActionNames : ~strcasecmp0(LastActionArg, <<a>>))
       => conf.action = "forbidden"
    /\ (ValidationFailed /\ conf.action = "forbidden")
       => hook.ret = HTTP_FORBIDDEN /\ status = "done" /\ passed = <<>>
    /\ (ValidationFailed /\ conf.action = "internal_server_error")
       => hook.ret = HTTP_INTERNAL_SERVER_ERROR /\ status = "done" /\ passed = <<>>
    /\ (ValidationFailed /\ conf.action = "message")
       => /\ hook.ret = DONE
          /\ status = "done"
          /\ passed = << DataBucket(<<"<h2>">> \o conf.errorCustomMessage \o <<"</h2>">>) >>

\* a failed validation under action message wrote the message of the
\* errorCustomMessage directive
C15_CustomMessageWritten ==
    /\ ValidationFailed
    /\ conf.action = "message"
    /\ conf.errorCustomMessage = CustomMessage
    /\ hook.ret = DONE
    /\ passed = << DataBucket(<<"<h2>", "n", "o", "</h2>">>) >>

\* C16: with action redirect a failed validation answers 301 with the
\* configured target in Location when a non-empty target is configured, and
\* 403 when none is: never set, or set by a directive with an empty argument
C16_RedirectOrForbidden ==
    (ValidationFailed /\ conf.action = "redirect")
    => IF conf.errorRedirectionUri # NULL /\ conf.errorRedirectionUri # <<>>
       THEN /\ hook.ret = HTTP_MOVED_PERMANENTLY
            /\ apr_table_get(headers_out, <<"Location">>) = conf.errorRedirectionUri
       ELSE hook.ret = HTTP_FORBIDDEN

\* C17: with action strip a failed validation returns OK and the request
\* goes on to the handler as it arrived but for its input: a GET has an
\* empty query string (if it had one), the body of a POST is discarded;
\* uri, method and request headers are those that arrived
C17_StripLetsThroughWithoutInput ==
    (ValidationFailed /\ conf.action = "strip")
    => /\ hook.ret = OK
       /\ status = "handler"
       /\ \E r \in Requests \cup PathRequests :
            /\ r.args = hook.args
            /\ req.uri = r.uri
            /\ req.method = r.method
            /\ req.hostname = r.hostname
            /\ req.headers_in = r.headers_in
       /\ req.method = "GET" => req.args \in { NULL, <<>> } /\ (hook.args # NULL => req.args = <<>>)
       /\ req.method = "POST" => hook.discarded

\* a GET that a rule matches came with a wrong token in its query string
\* and went on with the query string emptied
C17_QueryStripped ==
    /\ ValidationFailed
    /\ conf.action = "strip"
    /\ req.method = "GET"
    /\ hook.args = QueryOf(<<"tokB">>)
    /\ req.args = <<>>
    /\ status = "handler"


\* ten to the power n
RECURSIVE Pow10(_)
Pow10(n) == IF n = 0 THEN 1 ELSE 10 * Pow10(n - 1)

\* the decimal number that the digits at the start of s spell, 0 for none
RECURSIVE NumberAtStart(_)
NumberAtStart(s) ==
    IF s = <<>> \/ ~IsDigit(Head(s)) THEN 0
    ELSE DigitVal(Head(s)) * Pow10(CountDigits(Tail(s))) + NumberAtStart(Tail(s))

\* the argument is a decimal number and nothing else
IsNumber(s) == s # <<>> /\ CountDigits(s) = Len(s)

\* the token length after the directive lines ds, length being the one
\* before them: a tokenLength line sets the length to its number when that
\* is at least the floor and is skipped otherwise.  Its number is the one
\* its argument starts with; under strict, the one its argument is.
RECURSIVE LengthAfter(_, _, _)
LengthAfter(ds, length, strict) ==
    IF ds = <<>> THEN length
    ELSE LET d == Head(ds)
             n == IF d.name # "tokenLength" THEN 0
                  ELSE IF strict THEN (IF IsNumber(d.arg) THEN NumberAtStart(d.arg) ELSE 0)
                  ELSE IF d.arg # <<>> /\ Head(d.arg) = "+" THEN NumberAtStart(Tail(d.arg))
                  ELSE NumberAtStart(d.arg)
         IN  LengthAfter(Tail(ds), IF n >= DEFAULT_TOKEN_MINIMUM_LENGTH THEN n ELSE length,
                         strict)

LastSegment(uri) ==
    IF LastIndexFrom(uri, "/", Len(uri)) = 0 THEN uri
    ELSE Drop(uri, LastIndexFrom(uri, "/", Len(uri)))

\* C20: the ignore pattern lets a request skip validation only when its
\* final path segment ends with one of the extensions, and a POST whose
\* final segment does not end with one is validated
C20_IgnoredOnlyByEnding ==
    (hook.ran /\ hook.outcome = "ok" /\ conf.flag = "CSRFP_TRUE")
    => LET ends == \E x \in IgnoreAnywhere \cup IgnoreAtEnd :
                       EndsWith(LowerStr(LastSegment(req.uri)), x)
       IN  /\ CSRFP_IGNORE_TEXT \in env => ends
           /\ (req.method = "POST" /\ ~ends) => hook.validated


\* the buckets of a sequence of brigades in order
RECURSIVE Joined(_)
Joined(bs) == IF bs = <<>> THEN <<>> ELSE Head(bs) \o Joined(Tail(bs))

\* the type a response declares: Content-Type of headers_out, else of
\* err_headers_out, else the request's content_type
Declared(w) ==
    IF apr_table_get(w.hout, <<"Content-Type">>) # NULL
    THEN apr_table_get(w.hout, <<"Content-Type">>)
    ELSE IF apr_table_get(w.herr, <<"Content-Type">>) # NULL
    THEN apr_table_get(w.herr, <<"Content-Type">>)
    ELSE w.content_type

\* the response of this state was made with a declared type that is absent
\* or does not begin with text/html or text/xhtml
NonHtmlResponse == "original" \in DOMAIN hist /\ ~IsHtmlType(Declared(hist.original))

\* C19: a response whose declared type is absent or not html is forwarded
\* as it is: the buckets passed on are those that came, in the same
\* brigades' order, Content-Length and r->chunked are as they were, and the
\* filter context is op_end with no search from the first run on
C19_NonHtmlPassesUntouched ==
    NonHtmlResponse
    => /\ ~flt.fault
       /\ passed \o Joined(resp.brigades) = Joined(hist.original.brigades)
       /\ apr_table_get(headers_out, <<"Content-Length">>)
            = apr_table_get(hist.original.hout, <<"Content-Length">>)
       /\ resp.herr = hist.original.herr
       /\ resp.chunked = hist.original.chunked
       /\ IF flt.runs = 0 THEN rctx = NoCtx
          ELSE rctx.state = "op_end" /\ rctx.search = NULL


\* the Cookie header of r has a cookie named CSRFPSESSID whose value is sid
CarriesSession(r, sid) ==
    LET cookie == apr_table_get(r.headers_in, <<"Cookie">>)
        one    == CookieOf(sid)
    IN  /\ cookie # NULL
        /\ \E i \in 1..Len(cookie) :
              /\ i + Len(one) - 1 <= Len(cookie)
              /\ SubSeq(cookie, i, i + Len(one) - 1) = one
              /\ i = 1 \/ cookie[i - 1] = " "
              /\ i + Len(one) - 1 = Len(cookie) \/ cookie[i + Len(one)] = ";"

\* C21: for two stored sessions A and B with different ids and different
\* tokens, a request that carries the session cookie of B and the token of
\* A fails validation.
C21_TokenBoundToItsSession ==
    \A a \in 1..Len(table) : \A b \in 1..Len(table) :
       (/\ hook.ran /\ hook.outcome = "ok" /\ hook.validated /\ flt.runs = 0
        /\ table[a].sessid # table[b].sessid
        /\ table[a].token # table[b].token
        /\ CarriesSession(Arrived, table[b].sessid)
        /\ TokenValue(Arrived, conf) = table[a].token)
       => ~HookLetThrough

\* C22: validation never accepts a token value later than
\* TOKEN_EXPIRY_MAXTIME after generateToken gave that value, whatever
\* requests the session made in between.
C22_NoAcceptancePastExpiry ==
    (hook.ran /\ hook.outcome = "ok" /\ hook.validated /\ HookLetThrough
     /\ "born" \in DOMAIN hist)
    => \A b \in hist.born :
          b.token = TokenValue(Arrived, conf)
          => hook.time <= b.time + TOKEN_EXPIRY_MAXTIME


\* the step is a run of csrfp_header_parser in which validateToken was
\* called on the arriving request and gave 0
FailingArrival ==
    /\ status = "idle" /\ hook'.ran /\ hook'.outcome = "ok" /\ hook'.validated
    /\ validateToken([req' EXCEPT !.args = hook'.args], table, now, conf) = 0

\* C23: a request that failed validation is not marked for regeneration,
\* under any failure action, and a request that is not marked gets no
\* Set-Cookie header and no store access from the filter: the session table
\* and the counter stay as they were.
C23_FailedRequestIssuesNothing ==
    /\ [][ /\ FailingArrival => "regen_csrfptoken" \notin env'
           /\ (hook.ran /\ "regen_csrfptoken" \notin env)
              => (table' = table /\ counter' = counter) ]_vars
    /\ []( (hook.ran /\ "regen_csrfptoken" \notin env)
           => /\ flt.issued = <<>>
              /\ flt.calls = <<>>
              /\ SetCookies(headers_out) = 0 )

\* a POST that failed validation under strip went on to the handler and its
\* whole response has left the filter
C23_StrippedResponseSent ==
    /\ ValidationFailed
    /\ conf.action = "strip"
    /\ req.method = "POST"
    /\ status = "done"
    /\ flt.runs >= 1
    /\ passed # <<>>
    /\ table # <<>>


\* the order of the filter states
Rank(state) ==
    CASE state = "none" -> 0
      [] state = "op_init" -> 1
      [] state = "op_body_init" -> 2
      [] state = "op_body_end" -> 3
      [] state = "op_end" -> 4

\* the positions in the buckets bb of a bucket made of payload
InsertedIn(bb, payload) == { i \in 1..Len(bb) : bb[i] = DataBucket(payload) }

\* the same in the buckets forwarded so far
Inserted(payload) == InsertedIn(passed, payload)

\* C24: the rewrite state of a request never moves backward from one filter
\* invocation to the next, a run that returns enters op_body_end only from
\* op_body_init or after inserting the no-script payload itself, and every
\* script payload forwarded has a no-script payload forwarded before it.
C24_StateOnlyAdvances ==
    /\ [][ /\ Rank(rctx'.state) >= Rank(rctx.state)
           /\ (rctx'.state = "op_body_end" /\ rctx.state # "op_body_end" /\ ~flt'.fault)
              => (rctx.state = "op_body_init"
                  \/ InsertedIn(passed', rctx'.noscript) # {}) ]_vars
    /\ []( rctx.state # "none"
           => \A i \in Inserted(rctx.script) :
                 \E j \in Inserted(rctx.noscript) : j < i )

\* where the '>' of the body tag and the '>' of </body> end in a page
TagEnd(body) == FirstEnd(body, <<">">>, FirstEnd(LowerStr(body), BodyOpen, 1))
CloseEnd(body) == FirstEnd(LowerStr(body), BodyClose, 1)

\* a page went out with both payloads in place, the no-script payload
\* inserted in the first filter invocation and the script payload in the
\* second
C24_ClosedInLaterInvocation ==
    /\ "states" \in DOMAIN hist
    /\ status = "done"
    /\ ~flt.fault
    /\ hist.states = <<"op_body_init", "op_body_end">>
    /\ Flatten(passed) = Rewritten(hist.body, rctx.noscript, rctx.script)


\* the response is over and no filter run faulted
ScanDone == "body" \in DOMAIN hist /\ status = "done" /\ ~flt.fault

\* C25: once the whole of an html response with a parseable Content-Length
\* has passed the filter, the header is the original length plus the
\* lengths of the two payloads, and it is the number of body bytes
\* forwarded.
C25_LengthMatchesForwarded ==
    ScanDone
    => /\ apr_table_get(headers_out, <<"Content-Length">>)
            = OffToStr(Len(hist.body) + strlen(rctx.script) + strlen(rctx.noscript))
       /\ apr_table_get(headers_out, <<"Content-Length">>)
            = OffToStr(strlen(Flatten(passed)))


\* the positions of the body at which a chunk of the response ends
ChunkEnds(w) ==
    { Len(Flatten(SubSeq(Joined(w.brigades), 1, k))) : k \in 1..Len(Joined(w.brigades)) }

\* where the body tag begins in a page
TagStart(body) == FirstEnd(LowerStr(body), BodyOpen, 1) - Len(BodyOpen) + 1

\* the body tag, from '<' to '>', lies in one chunk of the response
TagInOneChunk ==
    \A e \in ChunkEnds(hist.original) : e < TagStart(hist.body) \/ e >= TagEnd(hist.body)

\* the bytes forwarded before the first bucket made of payload
Before(payload) ==
    Flatten(SubSeq(passed, 1, SetMin(Inserted(payload)) - 1))

\* C26: when <body, in any letter case, and the '>' that ends the tag lie
\* in one chunk, the no-script payload is inserted right after that '>' and
\* the state leaves op_init, wherever in the chunk the tag starts and
\* however long it is.
C26_TagInChunkIsOpened ==
    (ScanDone /\ TagInOneChunk)
    => /\ Inserted(rctx.noscript) # {}
       /\ Before(rctx.noscript) = SubSeq(hist.body, 1, TagEnd(hist.body))
       /\ Rank(rctx.state) >= Rank("op_body_init")


\* the data buckets forwarded so far that hold bytes of the page
PageChunks ==
    LET Holds(b) == b.type = "data" /\ b.data # <<>>
                    /\ b.data # rctx.noscript /\ b.data # rctx.script
    IN  SelectSeq(passed, Holds)

\* the last n bytes of s
LastBytes(s, n) == IF Len(s) <= n THEN s ELSE SubSeq(s, Len(s) - n + 1, Len(s))

\* a chunk of the response ends inside the marker that ends at position e
\* of the body and is n bytes long
SplitInside(e, n) == \E c \in ChunkEnds(hist.original) : e - n < c /\ c < e

\* the page bytes forwarded before the first bucket made of payload
PageBytesBefore(payload) ==
    LET Page(b) == b.data # rctx.noscript /\ b.data # rctx.script
    IN  Flatten(SelectSeq(SubSeq(passed, 1, SetMin(Inserted(payload)) - 1), Page))

\* C27: a marker cut in two by a chunk boundary is still found.  After
\* chunks without <body the carry buffer holds the trailing bytes of the
\* last chunk; a <body cut in two gets the no-script payload after the '>'
\* of its tag; and, once that payload is in, a </body> cut in two gets the
\* script payload right after it.
C27_SplitMarkerFound ==
    /\ ("body" \in DOMAIN hist /\ rctx.state = "op_init" /\ ~flt.fault
        /\ PageChunks # <<>>
        /\ FirstEnd(LowerStr(Flatten(passed)), BodyOpen, 1) = 0)
       => rctx.overlap_buf
            = LastBytes(PageChunks[Len(PageChunks)].data, CSRFP_OVERLAP_BUCKET_SIZE - 1)
    /\ (ScanDone /\ SplitInside(TagStart(hist.body) + Len(BodyOpen) - 1, Len(BodyOpen)))
       => /\ Inserted(rctx.noscript) # {}
          /\ Before(rctx.noscript) = SubSeq(hist.body, 1, TagEnd(hist.body))
    /\ (ScanDone /\ SplitInside(CloseEnd(hist.body), Len(BodyClose))
        /\ CloseEnd(hist.body) > 0 /\ Inserted(rctx.noscript) # {})
       => /\ Inserted(rctx.script) # {}
          /\ PageBytesBefore(rctx.script) = SubSeq(hist.body, 1, CloseEnd(hist.body))


\* a chunk of the response ends after the whole of <body and before the
\* '>' of the tag
TagCut ==
    \E c \in ChunkEnds(hist.original) :
       TagStart(hist.body) + Len(BodyOpen) - 1 <= c /\ c < TagEnd(hist.body)

\* C28: the search for the '>' of a body tag never reads past the last
\* bucket of a brigade, and when a chunk ends between <body and the '>' of
\* the tag, whatever lies between that chunk and the next, the no-script
\* payload is inserted after the first '>' that follows.
C28_BracketSearchResumes ==
    /\ ("body" \in DOMAIN hist /\ flt.fault) => rctx.state # "op_init"
    /\ (ScanDone /\ TagCut)
       => /\ Inserted(rctx.noscript) # {}
          /\ Before(rctx.noscript) = SubSeq(hist.body, 1, TagEnd(hist.body))


\* the page bytes forwarded before the bucket at position i
PageBytesUpTo(i) ==
    LET Page(b) == b.data # rctx.noscript /\ b.data # rctx.script
    IN  Flatten(SelectSeq(SubSeq(passed, 1, i - 1), Page))

\* C29: every script payload forwarded comes right after the seven
\* characters </body>, in any letter case; </body followed by another
\* character gets no payload.
C29_ScriptOnlyAfterCloseTag ==
    ("body" \in DOMAIN hist /\ rctx.state # "none")
    => \A i \in Inserted(rctx.script) :
          EndsWith(LowerStr(PageBytesUpTo(i)), BodyClose)


\* C30: the scanner is never run once the script payload is in and no
\* marker is sought, and a response whose script payload has been inserted
\* is forwarded whole and in order, with nothing but the two payloads
\* added.
C30_NoScanAfterClose ==
    /\ ("body" \in DOMAIN hist /\ flt.fault) => rctx.state # "op_body_end"
    /\ (ScanDone /\ rctx.state = "op_body_end")
       => PageBytesUpTo(Len(passed) + 1) = hist.body


\* the token stored for a session id, NULL when the table has no row for it
StoredFor(tbl, sessid) ==
    IF \E i \in 1..Len(tbl) : tbl[i].sessid = sessid
    THEN tbl[CHOOSE i \in 1..Len(tbl) : tbl[i].sessid = sessid].token
    ELSE NULL

\* C31: when a child leaves the regeneration step (setTokenCookie, the sweep
\* and the close), the token it sent in the token cookie is the token the
\* table holds for the session id it sent in the session cookie, also when
\* another child runs the step for the same session id and when the put fails
C31_SentTokenIsStored ==
    [][\A p \in Children :
          (procs[p].pc = "sweep" /\ procs'[p].pc = "rest")
              => StoredFor(table', procs[p].sessid) = procs[p].token]_vars


\* a request of a method other than POST and GET has been through the hook
\* with the module enabled and the store opened
OtherMethodHooked ==
    /\ hook.ran /\ hook.outcome = "ok" /\ flt.runs = 0
    /\ conf.flag # "CSRFP_FALSE"
    /\ req.method \notin {"POST", "GET"}

\* validateToken was not called by the hook
NotValidated ==
    ~hook.validated /\ \A i \in 1..Len(hook.calls) : hook.calls[i].op # "validate"

\* C32 as stated: a request whose method is neither POST nor GET is never
\* token-validated; with the module enabled and the store available it
\* passes the hook and is marked for token regeneration, whatever token or
\* session cookie it carries
C32_OtherMethodPassesMarked ==
    OtherMethodHooked => NotValidated /\ hook.ret = OK /\ HookLetThrough

\* C32: a request whose method is neither POST nor GET is never
\* token-validated and, with the module enabled and the store available,
\* passes the hook whatever token or session cookie it carries; it is marked
\* for token regeneration unless its path matches an ignore pattern, and
\* then it is left unmarked
C32_OtherMethodPassesUnvalidated ==
    OtherMethodHooked =>
        /\ NotValidated
        /\ hook.ret = OK
        /\ HookLetThrough <=> (needvalidation(Arrived, {}).ret = 1)

\* a PUT or DELETE for a page, carrying the session cookie of a stored
\* session and a token that is not the one stored for it, passed the hook
\* and was marked
C32_WrongTokenPutMarked ==
    /\ OtherMethodHooked
    /\ getCookieToken(Arrived, CSRFP_SESS_TOKEN) = <<"sidA">>
    /\ apr_table_get(Arrived.headers_in, CSRFP_TOKEN) = <<"tokB">>
    /\ StoredFor(table, <<"sidA">>) = <<"tokA">>
    /\ HookLetThrough


\* the session ids that have a row in the table
StoredSessions(tbl) == { tbl[i].sessid : i \in 1..Len(tbl) }

\* C33: every session id stored in the session table was produced by the
\* token generator: no step adds a row for the session id that the request
\* supplied in its session cookie when the table had no row for that id
C33_NoClientSessionInserted ==
    [][\A sid \in StoredSessions(table') \ StoredSessions(table) :
          sid # getCookieToken(req, CSRFP_SESS_TOKEN)]_vars


\* the calls of one kind made with an open handle
CountOpen(calls, op) ==
    Cardinality({ i \in 1..Len(calls) : calls[i].op = op /\ calls[i].db = DB_OPEN })

\* every handle the calls opened was closed, and csrfp_sql_init dropped none
AllClosed(calls, leaked) ==
    CountOpen(calls, "open") = CountOpen(calls, "close") /\ ~leaked

\* C34: every store connection opened while handling a request is closed
\* before the hook that opened it returns, on every path of the validation
\* hook (pass, GET failure, POST failure) and of the output filter
C34_EveryConnectionClosed ==
    /\ hook.ran => AllClosed(hook.calls, hook.leaked)
    /\ AllClosed(flt.calls, flt.leaked)


\* C35: with the enable flag off the module has no effect on a request or
\* its response: no step rejects a request, opens the store, or issues a
\* token or cookie, and every brigade of the response is forwarded as it
\* came, with Content-Length as the content generator set it
C35_DisabledHasNoEffect ==
    [][conf.flag = "CSRFP_FALSE"
          => /\ hook'.ret = OK
             /\ hook'.calls = <<>>
             /\ flt'.calls = <<>>
             /\ flt'.issued = <<>>
             /\ table' = table
             /\ SetCookies(headers_out') = 0
             /\ status = "filter"
                  => /\ passed' = passed \o Head(resp.brigades)
                     /\ apr_table_get(headers_out', <<"Content-Length">>)
                            = apr_table_get(headers_out, <<"Content-Length">>)]_vars


\* C36: every invocation of the output filter terminates and passes its
\* brigade downstream: whatever the brigade and the rewrite state, the step
\* of the filter on a brigade ends with every bucket of that brigade
\* forwarded, the scan with its restart after a split and its deferred
\* search for the bracket having come to an end inside the brigade
C36_BrigadePassedDownstream ==
    [][(status = "filter" /\ flt.active)
          => /\ ~flt'.fault
             /\ Len(passed') >= Len(passed) + Len(Head(resp.brigades))]_vars


\* C37: generateToken(length) returns a string of exactly length characters
\* whose i-th character is the symbol of the 62-symbol alphabet at index
\* (i-th random byte mod 62), for every byte value 0..255, so that each of
\* the 62 symbols is produced by some byte value
C37_ByteMod62OfAlphabet ==
    ("token" \in DOMAIN hist /\ hist.token # NULL)
        => /\ Len(hist.token) = hist.length
           /\ \A i \in 1..hist.length :
                 hist.token[i] = charset[(hist.buf[i] % Len(charset)) + 1]

====
